---- MODULE Spec2Model ----
(***************************************************************************)
(* UAVTalk protocol engine of flight/UAVTalk/uavtalk.c: the receive state  *)
(* machine (UAVTalkProcessInputStream), the dispatcher (receiveObject,     *)
(* updateAck), the transmitter (sendObject, sendSingleObject, sendNack)    *)
(* and the transaction manager (objectTransaction).                        *)
(*                                                                         *)
(* The connection is modelled as a record c whose fields are the fields of *)
(* UAVTalkConnectionData; every C function is an operator from a           *)
(* connection record to the connection record it leaves behind (its return *)
(* value is the field ret).  The module's variables hold the fields of the *)
(* one connection under study.                                             *)
(***************************************************************************)
EXTENDS Integers, Sequences, FiniteSets, TLC

VARIABLES
    iproc,       \* connection->iproc, the UAVTalkInputProcessor
    stats,       \* connection->stats
    rxBuffer,    \* connection->rxBuffer
    txBuffer,    \* connection->txBuffer
    respObj,     \* connection->respObj   (pending transaction: object handle)
    respInstId,  \* connection->respInstId
    respSema,    \* connection->respSema  (binary semaphore: 0 or 1)
    lock,        \* connection->lock      (owner context, or NoCtx)
    transLock,   \* connection->transLock (owner context, or NoCtx)
    txSize,      \* connection->txSize
    outStream,   \* connection->outStream (NULL or the sink)
    sink,        \* the writes handed to the output stream, in order
    objData,     \* the object registry's instance data
    rxLog,       \* the invocations of receiveObject, in order
    wire,        \* bytes of the peer's frame not yet fed to the receiver
    sent,        \* the frame the peer put on the wire last
    damage,      \* what happened to the bytes of that frame on the way
    fromSync,    \* the receiver was in SYNC when that frame began
    nFrames,     \* frames the peer has put on the wire
    sinceSync,   \* bytes fed since the receiver was last in SYNC
    mark,        \* the counters and the logs' lengths when that frame began
    last,        \* the last step: its action and the byte it fed
    pc,          \* per caller task: its position in objectTransaction
    call,        \* per caller task: the arguments of its current call
    result,      \* per caller task: the return value of its last call
    served,      \* per caller task: a satisfying frame was dispatched while it waited
    replyTo,     \* the task whose frame the peer answered with the frame taken in last
    nCalls,      \* API calls started
    run,         \* per context: where it is in a section under lock, its send's locals
    outLog       \* the calls of the output stream: context, stream, offset, bytes, frame

vars == <<iproc, stats, rxBuffer, txBuffer, respObj, respInstId, respSema,
          lock, transLock, txSize, outStream, sink, objData, rxLog, wire,
          sent, damage, fromSync, nFrames, sinceSync, mark, last, pc, call,
          result, served, replyTo, nCalls, run, outLog>>

connVars == <<iproc, stats, rxBuffer, txBuffer, respObj, respInstId,
              respSema, txSize, outStream, sink, objData, rxLog>>

linkVars == <<wire, sent, damage, fromSync, nFrames, sinceSync, mark>>

taskVars == <<lock, transLock, pc, call, result, served, nCalls>>

sectionVars == <<run, outLog>>

----------------------------------------------------------------------------
(* Protocol constants.  uavtalk_priv.h, which sets them, is not among the  *)
(* sources; the values of the marker, the version tag and the kinds are    *)
(* those of the UAVTalk wire format, the maximum payload length is kept    *)
(* small.                                                                  *)

UAVTALK_SYNC_VAL == 60

UAVTALK_TYPE_MASK == 248

UAVTALK_TYPE_VER == 32

UAVTALK_TYPE_OBJ == 32

UAVTALK_TYPE_OBJ_REQ == 33

UAVTALK_TYPE_OBJ_ACK == 34

UAVTALK_TYPE_ACK == 35

UAVTALK_TYPE_NACK == 36

UAVTALK_MIN_HEADER_LENGTH == 8

UAVTALK_MAX_HEADER_LENGTH == 10

UAVTALK_CHECKSUM_LENGTH == 1

UAVTALK_MAX_PAYLOAD_LENGTH == 5

UAVTALK_MAX_PACKET_LENGTH ==
    UAVTALK_MAX_HEADER_LENGTH + UAVTALK_MAX_PAYLOAD_LENGTH + UAVTALK_CHECKSUM_LENGTH

UAVOBJ_ALL_INSTANCES == 65535

NULL == 0

----------------------------------------------------------------------------
(* Bytes and the checksum.                                                 *)

Bit(a, i) == (a \div (2 ^ i)) % 2

\* a & b on bytes
And8(a, b) ==
    LET bit(i) == IF Bit(a, i) = 1 /\ Bit(b, i) = 1 THEN 2 ^ i ELSE 0
    IN  bit(0) + bit(1) + bit(2) + bit(3) + bit(4) + bit(5) + bit(6) + bit(7)

\* a ^ b on bytes
Xor8(a, b) ==
    LET bit(i) == IF Bit(a, i) # Bit(b, i) THEN 2 ^ i ELSE 0
    IN  bit(0) + bit(1) + bit(2) + bit(3) + bit(4) + bit(5) + bit(6) + bit(7)

\* One entry of the CRC-8 table (polynomial x^8 + x^2 + x + 1).
RECURSIVE CrcShift(_, _)
CrcShift(x, n) ==
    IF n = 0 THEN x
    ELSE CrcShift(IF x >= 128 THEN Xor8((2 * x) % 256, 7) ELSE 2 * x, n - 1)

crc_table == [x \in 0..255 |-> CrcShift(x, 8)]

PIOS_CRC_updateByte(crc, data) == crc_table[Xor8(crc, data)]

\* CRC over buf[0 .. length-1], buf a function on 0..N
RECURSIVE CrcFrom(_, _, _, _)
CrcFrom(crc, buf, i, length) ==
    IF i >= length THEN crc
    ELSE CrcFrom(PIOS_CRC_updateByte(crc, buf[i]), buf, i + 1, length)

PIOS_CRC_updateCRC(crc, buf, length) == CrcFrom(crc, buf, 0, length)

\* (uint8_t)((v >> (8*k)) & 0xFF), v a 16-bit value
ByteOf(v, k) == (v \div (256 ^ k)) % 256

\* A uint32_t is held as its four bytes, least significant first.
U32Zero == <<0, 0, 0, 0>>

\* (uint8_t)((v >> (8*k)) & 0xFF), v a uint32_t
U32Byte(v, k) == v[k + 1]

\* v + (byte << (8*k)) in 32 bits: the carry runs up and out of byte 3
RECURSIVE U32Carry(_, _, _)
U32Carry(v, k, add) ==
    IF k > 3 \/ add = 0 THEN v
    ELSE U32Carry([v EXCEPT ![k + 1] = (@ + add) % 256], k + 1, (v[k + 1] + add) \div 256)

U32AddShifted(v, byte, k) == U32Carry(v, k, byte)

----------------------------------------------------------------------------
(* The object registry (uavobjectmanager), an external collaborator: three *)
(* objects, each a handle (0 is no object), a 32-bit id, a size and its    *)
(* instances' data.                                                        *)

ObjA == 1   \* single instance, 4 bytes

ObjB == 2   \* multi instance, 4 bytes, two instances

ObjC == 3   \* single instance, as many bytes as the maximum payload length

ObjU == 4   \* an object of the peer's registry only: single instance, 4 bytes

Handles == {ObjA, ObjB, ObjC}

IdA == <<1, 12, 11, 10>>          \* 0x0A0B0C01

IdB == <<2, 12, 11, 10>>          \* 0x0A0B0C02

IdC == <<3, 12, 11, 10>>          \* 0x0A0B0C03

IdUnknown == <<239, 190, 173, 222>>   \* 0xDEADBEEF, resolved by no object of this side

UAVObjGetID(obj) ==
    CASE obj = ObjA -> IdA
      [] obj = ObjB -> IdB
      [] obj = ObjC -> IdC
      [] obj = ObjU -> IdUnknown
      [] OTHER -> U32Zero

UAVObjGetByID(objId) ==
    CASE objId = IdA -> ObjA
      [] objId = IdB -> ObjB
      [] objId = IdC -> ObjC
      [] OTHER -> NULL

UAVObjIsSingleInstance(obj) == obj # ObjB

UAVObjGetNumBytes(obj) ==
    CASE obj = ObjA -> 4
      [] obj = ObjB -> 4
      [] obj = ObjU -> 4
      [] obj = ObjC -> UAVTALK_MAX_PAYLOAD_LENGTH
      [] OTHER -> 0

\* data: [handle -> [instance id -> payload]]; the instances are numbered from 0
UAVObjGetNumInstances(data, obj) == Cardinality(DOMAIN data[obj])

\* UAVObjPack: the instance's bytes, or failure when the instance does not exist
UAVObjPackOk(data, obj, instId) == obj \in DOMAIN data /\ instId \in DOMAIN data[obj]

UAVObjPack(data, obj, instId) == data[obj][instId]

\* UAVObjUnpack: stores the bytes, creating the instance when it does not exist
UAVObjUnpack(data, obj, instId, bytes) ==
    [data EXCEPT ![obj] =
        [i \in (DOMAIN @) \cup {instId} |-> IF i = instId THEN bytes ELSE @[i]]]

Zeros(n) == [i \in 1..n |-> 0]

InitData ==
    [o \in Handles |->
        CASE o = ObjA -> (0 :> Zeros(4))
          [] o = ObjB -> (0 :> Zeros(4)) @@ (1 :> Zeros(4))
          [] o = ObjC -> (0 :> Zeros(UAVTALK_MAX_PAYLOAD_LENGTH))]

----------------------------------------------------------------------------
(* The transmitter.                                                        *)

Min(a, b) == IF a < b THEN a ELSE b

\* buf[from .. from+n-1] as a sequence: one write handed to the output stream
Slice(buf, from, n) == [i \in 1..n |-> buf[from + i - 1]]

\* A loop that hands the whole frame to the output stream in one write.
SendWhole(buf, total, maxSize, sentSoFar) == <<Slice(buf, 0, total)>>

\* The loop "while (sent < total)" of sendSingleObject: the writes it makes.
RECURSIVE SendLoop(_, _, _, _)
SendLoop(buf, total, maxSize, sentSoFar) ==
    IF sentSoFar < total
    THEN LET sending == Min(total - sentSoFar, maxSize)
         IN  <<Slice(buf, sentSoFar, sending)>>
                 \o SendLoop(buf, total, maxSize, sentSoFar + sending)
    ELSE <<>>

\* txBuffer[offset .. offset+Len(bytes)-1] = bytes
PutBytes(buf, offset, bytes) ==
    [i \in DOMAIN buf |->
        IF i >= offset /\ i < offset + Len(bytes) THEN bytes[i - offset + 1]
        ELSE buf[i]]

\* The header fields every frame starts with: marker, kind, object id.
PutHeader(buf, type, objId) ==
    [buf EXCEPT ![0] = UAVTALK_SYNC_VAL,
                ![1] = type,
                ![4] = U32Byte(objId, 0),
                ![5] = U32Byte(objId, 1),
                ![6] = U32Byte(objId, 2),
                ![7] = U32Byte(objId, 3)]

\* The length field of a frame: the bytes before the checksum.
\* A length field that counts the checksum byte too.
LengthFieldWithChecksum(dataOffset, length) ==
    dataOffset + length + UAVTALK_CHECKSUM_LENGTH

LengthField(dataOffset, length) == dataOffset + length

\* A transmitter that counts and writes a frame it could not serialize.
sendSingleObjectCounting(c, obj, instId, type) ==
    [c EXCEPT !.sink = Append(@, Slice(PutHeader(c.txBuffer, type, UAVObjGetID(obj)),
                                        0, UAVTALK_MIN_HEADER_LENGTH)),
              !.stats.txObjects = @ + 1,
              !.ret = -1]

sendSingleObject(c, obj, instId, type) ==
    LET objId == UAVObjGetID(obj)
        single == UAVObjIsSingleInstance(obj)
        b1 == PutHeader(c.txBuffer, type, objId)
        dataOffset == IF single THEN 8 ELSE 10
        b2 == IF single THEN b1
              ELSE [b1 EXCEPT ![8] = ByteOf(instId, 0), ![9] = ByteOf(instId, 1)]
        length == IF type = UAVTALK_TYPE_OBJ_REQ \/ type = UAVTALK_TYPE_ACK
                  THEN 0 ELSE UAVObjGetNumBytes(obj)
    IN  IF length >= UAVTALK_MAX_PAYLOAD_LENGTH
        THEN [c EXCEPT !.txBuffer = b2, !.ret = -1]
        ELSE IF length > 0 /\ ~UAVObjPackOk(c.objData, obj, instId)
        THEN [c EXCEPT !.txBuffer = b2, !.ret = -1]
        ELSE
          LET b3 == IF length > 0
                    THEN PutBytes(b2, dataOffset, UAVObjPack(c.objData, obj, instId))
                    ELSE b2
              b4 == [b3 EXCEPT ![2] = ByteOf(LengthField(dataOffset, length), 0),
                               ![3] = ByteOf(LengthField(dataOffset, length), 1)]
              b5 == [b4 EXCEPT ![dataOffset + length] =
                                  PIOS_CRC_updateCRC(0, b4, dataOffset + length)]
              total == dataOffset + length + UAVTALK_CHECKSUM_LENGTH
          IN  [c EXCEPT !.txBuffer = b5,
                        !.sink = IF c.outStream # NULL
                                 THEN @ \o SendLoop(b5, total, c.txSize, 0)
                                 ELSE @,
                        !.stats.txObjects = @ + 1,
                        !.stats.txBytes = @ + total,
                        !.stats.txObjectBytes = @ + length,
                        !.ret = 0]

\* A transmitter that answers nothing.
sendNackSilent(c, objId) == [c EXCEPT !.ret = 0]

sendNack(c, objId) ==
    LET b1 == PutHeader(c.txBuffer, UAVTALK_TYPE_NACK, objId)
        dataOffset == 8
        b2 == [b1 EXCEPT ![2] = ByteOf(dataOffset, 0), ![3] = ByteOf(dataOffset, 1)]
        b3 == [b2 EXCEPT ![dataOffset] = PIOS_CRC_updateCRC(0, b2, dataOffset)]
        total == dataOffset + UAVTALK_CHECKSUM_LENGTH
    IN  [c EXCEPT !.txBuffer = b3,
                  !.sink = IF c.outStream # NULL
                           THEN Append(@, Slice(b3, 0, total))
                           ELSE @,
                  !.stats.txBytes = @ + total,
                  !.ret = 0]

\* A loop that sends the first instance only.
SendOneInstance(c, obj, n, numInst, type) ==
    IF n < numInst THEN sendSingleObject(c, obj, n, type) ELSE c

\* for (n = 0; n < numInst; ++n) sendSingleObject(connection, obj, n, type);
RECURSIVE SendInstances(_, _, _, _, _)
SendInstances(c, obj, n, numInst, type) ==
    IF n < numInst
    THEN SendInstances(sendSingleObject(c, obj, n, type), obj, n + 1, numInst, type)
    ELSE c

\* A transmitter that cancels the pending transaction when it sends.
sendObjectClearing(c, obj, instIdArg, type) ==
    [sendSingleObject(c, obj, IF instIdArg = UAVOBJ_ALL_INSTANCES THEN 0 ELSE instIdArg,
                      type) EXCEPT !.respObj = NULL]

\* A transmitter that sends nothing.
sendObjectSilent(c, obj, instIdArg, type) == [c EXCEPT !.ret = 0]

sendObject(c, obj, instIdArg, type) ==
    LET instId == IF instIdArg = UAVOBJ_ALL_INSTANCES /\ UAVObjIsSingleInstance(obj)
                  THEN 0 ELSE instIdArg
    IN  IF type = UAVTALK_TYPE_OBJ \/ type = UAVTALK_TYPE_OBJ_ACK
        THEN IF instId = UAVOBJ_ALL_INSTANCES
             THEN [SendInstances(c, obj, 0, UAVObjGetNumInstances(c.objData, obj), type)
                      EXCEPT !.ret = 0]
             ELSE sendSingleObject(c, obj, instId, type)
        ELSE IF type = UAVTALK_TYPE_OBJ_REQ
        THEN sendSingleObject(c, obj, instId, UAVTALK_TYPE_OBJ_REQ)
        ELSE IF type = UAVTALK_TYPE_ACK
        THEN IF instId # UAVOBJ_ALL_INSTANCES
             THEN sendSingleObject(c, obj, instId, UAVTALK_TYPE_ACK)
             ELSE [c EXCEPT !.ret = -1]
        ELSE [c EXCEPT !.ret = -1]

----------------------------------------------------------------------------
(* The dispatcher.                                                         *)

\* A dispatcher that never completes a transaction.
updateAckSilent(c, obj, instId) == c

updateAck(c, obj, instId) ==
    IF c.respObj = obj
       /\ (c.respInstId = instId \/ c.respInstId = UAVOBJ_ALL_INSTANCES)
    THEN [c EXCEPT !.respSema = 1, !.respObj = NULL]
    ELSE c

\* A dispatcher that acknowledges whatever it is given.
receiveObjectAcking(c, type, objId, instId, data, length) ==
    [sendObject(c, UAVObjGetByID(objId), instId, UAVTALK_TYPE_ACK) EXCEPT !.ret = 0]

\* c.unpackOk: whether the registry's unpack succeeds in this call
receiveObject(c, type, objId, instId, data, length) ==
    LET obj == UAVObjGetByID(objId)
        unpacked == IF c.unpackOk
                    THEN [c EXCEPT !.objData = UAVObjUnpack(@, obj, instId, data)]
                    ELSE c
    IN  CASE type = UAVTALK_TYPE_OBJ ->
               IF instId # UAVOBJ_ALL_INSTANCES
               THEN [updateAck(unpacked, obj, instId) EXCEPT !.ret = 0]
               ELSE [c EXCEPT !.ret = -1]
          [] type = UAVTALK_TYPE_OBJ_ACK ->
               IF instId # UAVOBJ_ALL_INSTANCES
               THEN IF c.unpackOk
                    THEN [sendObject(unpacked, obj, instId, UAVTALK_TYPE_ACK)
                             EXCEPT !.ret = 0]
                    ELSE [c EXCEPT !.ret = -1]
               ELSE [c EXCEPT !.ret = -1]
          [] type = UAVTALK_TYPE_OBJ_REQ ->
               IF obj = NULL
               THEN [sendNack(c, objId) EXCEPT !.ret = 0]
               ELSE [sendObject(c, obj, instId, UAVTALK_TYPE_OBJ) EXCEPT !.ret = 0]
          [] type = UAVTALK_TYPE_NACK -> [c EXCEPT !.ret = 0]
          [] type = UAVTALK_TYPE_ACK ->
               IF instId # UAVOBJ_ALL_INSTANCES
               THEN [updateAck(c, obj, instId) EXCEPT !.ret = 0]
               ELSE [c EXCEPT !.ret = -1]
          [] OTHER -> [c EXCEPT !.ret = -1]

----------------------------------------------------------------------------
(* The receive state machine.                                              *)

RxStates == {"SYNC", "TYPE", "SIZE", "OBJID", "INSTID", "DATA", "CS"}

\* A rejection that leaves the state where it was.
RejectStay(c, counted) ==
    [c EXCEPT !.stats.rxErrors = IF counted THEN @ + 1 ELSE @]

\* A rejection that counts no receive error.
RejectUncounted(c, counted) == [c EXCEPT !.iproc.state = "SYNC"]

\* A frame is abandoned: back to SYNC, with or without a receive error.
Reject(c, counted) ==
    [c EXCEPT !.iproc.state = "SYNC",
              !.stats.rxErrors = IF counted THEN @ + 1 ELSE @]

\* The bytes received so far plus the payload must make the declared length.
LengthsMatch(ip) == ip.rxPacketLength + ip.length = ip.packet_size

\* A SYNC state that goes on counting the bytes from where the count was.
StateSyncCounting(c, rxbyte) ==
    IF rxbyte # UAVTALK_SYNC_VAL THEN c
    ELSE [c EXCEPT !.iproc.cs = PIOS_CRC_updateByte(0, rxbyte),
                   !.iproc.state = "TYPE"]

\* case UAVTALK_STATE_SYNC
StateSync(c, rxbyte) ==
    IF rxbyte # UAVTALK_SYNC_VAL THEN c
    ELSE [c EXCEPT !.iproc.cs = PIOS_CRC_updateByte(0, rxbyte),
                   !.iproc.rxPacketLength = 1,
                   !.iproc.state = "TYPE"]

\* case UAVTALK_STATE_TYPE
StateType(c, rxbyte) ==
    LET c1 == [c EXCEPT !.iproc.cs = PIOS_CRC_updateByte(@, rxbyte)]
    IN  IF And8(rxbyte, UAVTALK_TYPE_MASK) # UAVTALK_TYPE_VER
        THEN Reject(c1, FALSE)
        ELSE [c1 EXCEPT !.iproc.type = rxbyte,
                        !.iproc.packet_size = 0,
                        !.iproc.state = "SIZE",
                        !.iproc.rxCount = 0]

\* case UAVTALK_STATE_SIZE
StateSize(c, rxbyte) ==
    LET c1 == [c EXCEPT !.iproc.cs = PIOS_CRC_updateByte(@, rxbyte)]
        size == (c.iproc.packet_size + rxbyte * 256) % 65536
    IN  IF c.iproc.rxCount = 0
        THEN [c1 EXCEPT !.iproc.packet_size = (@ + rxbyte) % 65536,
                        !.iproc.rxCount = @ + 1]
        ELSE IF size < UAVTALK_MIN_HEADER_LENGTH
                \/ size > UAVTALK_MAX_HEADER_LENGTH + UAVTALK_MAX_PAYLOAD_LENGTH
        THEN Reject([c1 EXCEPT !.iproc.packet_size = size], FALSE)
        ELSE [c1 EXCEPT !.iproc.packet_size = size,
                        !.iproc.rxCount = 0,
                        !.iproc.objId = U32Zero,
                        !.iproc.state = "OBJID"]

\* case UAVTALK_STATE_OBJID
StateObjId(c, rxbyte) ==
    LET objId == U32AddShifted(c.iproc.objId, rxbyte, c.iproc.rxCount)
        c1 == [c EXCEPT !.iproc.cs = PIOS_CRC_updateByte(@, rxbyte),
                        !.iproc.objId = objId,
                        !.iproc.rxCount = @ + 1]
        obj == UAVObjGetByID(objId)
        type == c.iproc.type
        length == IF type = UAVTALK_TYPE_OBJ_REQ \/ type = UAVTALK_TYPE_ACK
                     \/ type = UAVTALK_TYPE_NACK
                  THEN 0 ELSE UAVObjGetNumBytes(obj)
        c2 == [c1 EXCEPT !.iproc.obj = obj]
        c3 == [c2 EXCEPT !.iproc.length = length]
    IN  IF c1.iproc.rxCount < 4 THEN c1
        ELSE IF obj = NULL /\ type # UAVTALK_TYPE_OBJ_REQ THEN Reject(c2, TRUE)
        ELSE IF length >= UAVTALK_MAX_PAYLOAD_LENGTH THEN Reject(c3, TRUE)
        ELSE IF ~LengthsMatch(c3.iproc) THEN Reject(c3, TRUE)
        ELSE IF obj = NULL
        THEN [c3 EXCEPT !.iproc.instId = 0, !.iproc.state = "CS", !.iproc.rxCount = 0]
        ELSE IF UAVObjIsSingleInstance(obj)
        THEN [c3 EXCEPT !.iproc.instId = 0,
                        !.iproc.state = IF length > 0 THEN "DATA" ELSE "CS",
                        !.iproc.rxCount = 0]
        ELSE [c3 EXCEPT !.iproc.instId = 0,
                        !.iproc.state = "INSTID",
                        !.iproc.rxCount = 0]

\* case UAVTALK_STATE_INSTID
StateInstId(c, rxbyte) ==
    LET c1 == [c EXCEPT !.iproc.cs = PIOS_CRC_updateByte(@, rxbyte),
                        !.iproc.instId = (@ + rxbyte * (256 ^ c.iproc.rxCount)) % 65536,
                        !.iproc.rxCount = @ + 1]
    IN  IF c1.iproc.rxCount < 2 THEN c1
        ELSE [c1 EXCEPT !.iproc.rxCount = 0,
                        !.iproc.state = IF c.iproc.length > 0 THEN "DATA" ELSE "CS"]

\* A payload state that does not look at the expected length.
StateDataOverrun(c, rxbyte) ==
    [c EXCEPT !.iproc.cs = PIOS_CRC_updateByte(@, rxbyte),
              !.rxBuffer[c.iproc.rxCount] = rxbyte,
              !.iproc.rxCount = @ + 1]

\* case UAVTALK_STATE_DATA
StateData(c, rxbyte) ==
    LET c1 == [c EXCEPT !.iproc.cs = PIOS_CRC_updateByte(@, rxbyte),
                        !.rxBuffer[c.iproc.rxCount] = rxbyte,
                        !.iproc.rxCount = @ + 1]
    IN  IF c1.iproc.rxCount < c.iproc.length THEN c1
        ELSE [c1 EXCEPT !.iproc.state = "CS", !.iproc.rxCount = 0]

\* The frame has passed the checksum and the final length check.
Accepted(ip, rxbyte) ==
    /\ ip.state = "CS"
    /\ rxbyte = ip.cs
    /\ ip.rxPacketLength = ip.packet_size + 1

\* A dispatch that does not go back to SYNC.
DispatchStay(c) ==
    LET ip == c.iproc
        data == Slice(c.rxBuffer, 0, ip.length)
        c1 == receiveObject(c, ip.type, ip.objId, ip.instId, data, ip.length)
    IN  [c1 EXCEPT !.rxLog = Append(@, [type |-> ip.type, objId |-> ip.objId,
                                        instId |-> ip.instId, data |-> data,
                                        ret |-> c1.ret]),
                   !.stats.rxObjectBytes = @ + ip.length,
                   !.stats.rxObjects = @ + 1]

\* A dispatch that counts no received object.
DispatchUncounted(c) ==
    LET ip == c.iproc
        data == Slice(c.rxBuffer, 0, ip.length)
        c1 == receiveObject(c, ip.type, ip.objId, ip.instId, data, ip.length)
    IN  [c1 EXCEPT !.rxLog = Append(@, [type |-> ip.type, objId |-> ip.objId,
                                        instId |-> ip.instId, data |-> data,
                                        ret |-> c1.ret]),
                   !.iproc.state = "SYNC"]

\* The call of receiveObject and the counters updated with it, under the lock.
Dispatch(c) ==
    LET ip == c.iproc
        data == Slice(c.rxBuffer, 0, ip.length)
        c1 == receiveObject(c, ip.type, ip.objId, ip.instId, data, ip.length)
    IN  [c1 EXCEPT !.rxLog = Append(@, [type |-> ip.type, objId |-> ip.objId,
                                        instId |-> ip.instId, data |-> data,
                                        ret |-> c1.ret]),
                   !.stats.rxObjectBytes = @ + ip.length,
                   !.stats.rxObjects = @ + 1,
                   !.iproc.state = "SYNC"]

\* A checksum state that does not compare the checksum.
StateCsUnchecked(c, rxbyte) ==
    IF c.iproc.rxPacketLength # c.iproc.packet_size + 1 THEN Reject(c, TRUE)
    ELSE Dispatch(c)

\* case UAVTALK_STATE_CS
StateCs(c, rxbyte) ==
    IF rxbyte # c.iproc.cs THEN Reject(c, TRUE)
    ELSE IF c.iproc.rxPacketLength # c.iproc.packet_size + 1 THEN Reject(c, TRUE)
    ELSE Dispatch(c)

\* A receiver that counts every byte, with no limit.
UAVTalkProcessInputStreamUncapped(c, rxbyte) ==
    LET c1 == [c EXCEPT !.stats.rxBytes = @ + 1,
                        !.iproc.rxPacketLength = @ + 1]
        c2 == CASE c.iproc.state = "SYNC" -> StateSync(c1, rxbyte)
                [] c.iproc.state = "TYPE" -> StateType(c1, rxbyte)
                [] c.iproc.state = "SIZE" -> StateSize(c1, rxbyte)
                [] c.iproc.state = "OBJID" -> StateObjId(c1, rxbyte)
                [] c.iproc.state = "INSTID" -> StateInstId(c1, rxbyte)
                [] c.iproc.state = "DATA" -> StateData(c1, rxbyte)
                [] c.iproc.state = "CS" -> StateCs(c1, rxbyte)
                [] OTHER -> Reject(c1, TRUE)
    IN  [c2 EXCEPT !.ret = 0]

UAVTalkProcessInputStream(c, rxbyte) ==
    LET c1 == [c EXCEPT !.stats.rxBytes = @ + 1,
                        !.iproc.rxPacketLength = IF @ < 65535 THEN @ + 1 ELSE @]
        c2 == CASE c.iproc.state = "SYNC" -> StateSync(c1, rxbyte)
                [] c.iproc.state = "TYPE" -> StateType(c1, rxbyte)
                [] c.iproc.state = "SIZE" -> StateSize(c1, rxbyte)
                [] c.iproc.state = "OBJID" -> StateObjId(c1, rxbyte)
                [] c.iproc.state = "INSTID" -> StateInstId(c1, rxbyte)
                [] c.iproc.state = "DATA" -> StateData(c1, rxbyte)
                [] c.iproc.state = "CS" -> StateCs(c1, rxbyte)
                [] OTHER -> Reject(c1, TRUE)
    IN  [c2 EXCEPT !.ret = 0]

----------------------------------------------------------------------------
(* Bounds of the model.                                                    *)

MaxInput == 18    \* bytes fed to the receiver, one UAVTalkProcessInputStream call each

MaxRxFrames == 1  \* frames the receive task takes in while callers run

MaxCalls == 2     \* API calls the caller tasks start

\* maxPacketSize values given to UAVTalkInitialize
TxSizes == {4, UAVTALK_MAX_PACKET_LENGTH}

\* respObj and respInstId are not set by UAVTalkInitialize: the values the
\* allocated memory may hold
UninitObj == {NULL, ObjA}

UninitInstId == {0, UAVOBJ_ALL_INSTANCES}

Callers == {"t1", "t2"}

\* The contexts that take the state lock: the caller tasks, the receive task
\* and a task that calls UAVTalkSetOutputStream.
Contexts == Callers \cup {"rx", "set"}

\* A context outside every section under the state lock.
NoRun ==
    [at |-> "out", total |-> 0, sent |-> 0, chunk |-> 0, objBytes |-> 0,
     counted |-> FALSE, frame |-> <<>>, job |-> NULL]

TheSink == NULL + 1

----------------------------------------------------------------------------
(* The connection as a record, and back.                                   *)

Conn(unpackOk) ==
    [iproc |-> iproc, stats |-> stats, rxBuffer |-> rxBuffer,
     txBuffer |-> txBuffer, respObj |-> respObj, respInstId |-> respInstId,
     respSema |-> respSema, txSize |-> txSize, outStream |-> outStream,
     sink |-> sink, objData |-> objData, rxLog |-> rxLog,
     unpackOk |-> unpackOk, ret |-> 0]

Store(c) ==
    /\ iproc' = c.iproc
    /\ stats' = c.stats
    /\ rxBuffer' = c.rxBuffer
    /\ txBuffer' = c.txBuffer
    /\ respObj' = c.respObj
    /\ respInstId' = c.respInstId
    /\ respSema' = c.respSema
    /\ txSize' = c.txSize
    /\ outStream' = c.outStream
    /\ sink' = c.sink
    /\ objData' = c.objData
    /\ rxLog' = c.rxLog

ZeroStats ==
    [rxBytes |-> 0, rxErrors |-> 0, rxObjects |-> 0, rxObjectBytes |-> 0,
     txBytes |-> 0, txObjects |-> 0, txObjectBytes |-> 0]

ZeroBuffer == [i \in 0..(UAVTALK_MAX_PACKET_LENGTH - 1) |-> 0]

\* UAVTalkInitialize(outputStream, maxPacketSize), with maxPacketSize one of sizes
Created(sizes) ==
    /\ iproc = [state |-> "SYNC", rxPacketLength |-> 0, type |-> 0,
                packet_size |-> 0, rxCount |-> 0, objId |-> U32Zero, obj |-> NULL,
                length |-> 0, instId |-> 0, cs |-> 0]
    /\ outStream = TheSink
    /\ lock = "free"
    /\ transLock = "free"
    /\ txSize \in sizes
    /\ rxBuffer = ZeroBuffer
    /\ txBuffer = ZeroBuffer
    /\ respSema = 0
    /\ stats = ZeroStats
    /\ respObj \in UninitObj
    /\ respInstId \in UninitInstId

\* UAVTalkInitialize(outputStream, maxPacketSize), maxPacketSize >= 1
UAVTalkInitialize == Created(TxSizes)

\* no frame of the transmitter
NoFrame == [type |-> 0, obj |-> NULL, objId |-> U32Zero, instId |-> 0, payload |-> <<>>]

\* The registry, the sink, the link and the tasks before the first step.
Outside ==
    /\ sink = <<>>
    /\ objData = InitData
    /\ rxLog = <<>>
    /\ wire = <<>>
    /\ sent = NoFrame
    /\ damage = "none"
    /\ fromSync = TRUE
    /\ nFrames = 0
    /\ sinceSync = 0
    /\ mark = [log |-> 0, sink |-> 0, errors |-> 0, objects |-> 0]
    /\ last = [ev |-> "Init", byte |-> 0, task |-> "none"]
    /\ pc = [t \in Callers |-> "idle"]
    /\ call = [t \in Callers |-> [type |-> 0, obj |-> NULL, instId |-> 0]]
    /\ result = [t \in Callers |-> 0]
    /\ served = [t \in Callers |-> FALSE]
    /\ replyTo = "none"
    /\ nCalls = 0
    /\ run = [x \in Contexts |-> NoRun]
    /\ outLog = <<>>

Init == UAVTalkInitialize /\ Outside

----------------------------------------------------------------------------
(* The peer: it holds the same objects, and one more (ObjU) that this      *)
(* side's registry does not resolve.  Its frames are what the transmitter  *)
(* writes, on a connection of its own.                                     *)

PeerPayload == <<1, 2, 3, 4>>

PeerData ==
    [o \in Handles \cup {ObjU} |->
        CASE o \in {ObjA, ObjU} -> (0 :> PeerPayload)
          [] o = ObjB -> (0 :> PeerPayload) @@ (1 :> PeerPayload)
          [] o = ObjC -> (0 :> Zeros(UAVTALK_MAX_PAYLOAD_LENGTH))]

PeerConn ==
    [txBuffer |-> ZeroBuffer, stats |-> ZeroStats, txSize |-> UAVTALK_MAX_PACKET_LENGTH,
     outStream |-> TheSink, sink |-> <<>>, objData |-> PeerData, ret |-> 0]

RECURSIVE Flatten(_)
Flatten(writes) ==
    IF writes = <<>> THEN <<>> ELSE Head(writes) \o Flatten(Tail(writes))

\* A frame: kind, object (a handle, or NULL and the id alone), instance id.
Frame(type, obj, objId, instId) ==
    [type |-> type, obj |-> obj, objId |-> objId, instId |-> instId,
     payload |-> IF type \in {UAVTALK_TYPE_OBJ, UAVTALK_TYPE_OBJ_ACK}
                 THEN PeerPayload ELSE <<>>]

\* The bytes the transmitter writes for frame f.
Encode(f) ==
    IF f.type = UAVTALK_TYPE_NACK
    THEN Flatten(sendNack(PeerConn, f.objId).sink)
    ELSE Flatten(sendSingleObject(PeerConn, f.obj, f.instId, f.type).sink)

ObjectFrames ==
    {Frame(t, ObjA, IdA, 0) : t \in {UAVTALK_TYPE_OBJ, UAVTALK_TYPE_OBJ_ACK,
                                      UAVTALK_TYPE_OBJ_REQ, UAVTALK_TYPE_ACK}}
    \cup {Frame(t, ObjB, IdB, 1) : t \in {UAVTALK_TYPE_OBJ, UAVTALK_TYPE_OBJ_REQ,
                                          UAVTALK_TYPE_ACK}}
    \cup {Frame(UAVTALK_TYPE_OBJ_REQ, ObjB, IdB, UAVOBJ_ALL_INSTANCES),
          Frame(UAVTALK_TYPE_OBJ_REQ, ObjC, IdC, 0)}

\* Frames for the object this side does not know.
UnknownFrames ==
    {Frame(t, ObjU, IdUnknown, 0) : t \in {UAVTALK_TYPE_OBJ_REQ, UAVTALK_TYPE_OBJ}}

NackFrames ==
    {Frame(UAVTALK_TYPE_NACK, NULL, IdUnknown, 0), Frame(UAVTALK_TYPE_NACK, NULL, IdA, 0)}


PeerFrames == ObjectFrames \cup UnknownFrames \cup NackFrames

Encoded == [f \in PeerFrames |-> Encode(f)]

RECURSIVE CrcSeq(_, _)
CrcSeq(crc, bytes) ==
    IF bytes = <<>> THEN crc
    ELSE CrcSeq(PIOS_CRC_updateByte(crc, Head(bytes)), Tail(bytes))

WithChecksum(bytes) == Append(bytes, CrcSeq(0, bytes))

\* Frames no transmitter of this code writes: a multi-instance object's frame
\* whose length field leaves the instance id out, and the DATA frame of ObjC,
\* whose payload is as long as a payload may be.
RawFrames ==
    {WithChecksum(<<UAVTALK_SYNC_VAL, UAVTALK_TYPE_OBJ, 12, 0>> \o IdB \o <<1, 0>>
                      \o PeerPayload),
     WithChecksum(<<UAVTALK_SYNC_VAL, UAVTALK_TYPE_ACK, 8, 0>> \o IdB \o <<1, 0>>),
     WithChecksum(<<UAVTALK_SYNC_VAL, UAVTALK_TYPE_OBJ,
                    UAVTALK_MIN_HEADER_LENGTH + UAVTALK_MAX_PAYLOAD_LENGTH, 0>>
                      \o IdC \o Zeros(UAVTALK_MAX_PAYLOAD_LENGTH))}

----------------------------------------------------------------------------
(* The link: the peer puts a frame on the wire, the receive task feeds the *)
(* bytes to UAVTalkProcessInputStream one at a time; one byte of a frame   *)
(* may arrive changed.                                                     *)

\* rxPacketLength as UAVTalkProcessInputStream counts it before the switch
Counted(ip) ==
    [ip EXCEPT !.rxPacketLength = IF @ < 65535 THEN @ + 1 ELSE @]

\* Feeding rxbyte now makes the receiver call receiveObject.
WillDispatch(ip, rxbyte) == Accepted(Counted(ip), rxbyte)

\* The values a byte may be changed to on the way.
Corrupt(b) == {(b + 1) % 256, (b + 128) % 256}

FeedByte(rxbyte) ==
    /\ \E ok \in (IF WillDispatch(iproc, rxbyte) THEN BOOLEAN ELSE {TRUE}) :
           Store(UAVTalkProcessInputStream(Conn(ok), rxbyte))
    /\ wire' = Tail(wire)
    /\ sinceSync' = IF iproc'.state = "SYNC" THEN 0 ELSE sinceSync + 1
    /\ UNCHANGED <<sent, fromSync, nFrames, mark, replyTo, sectionVars>>
    /\ UNCHANGED taskVars

PutOnWire(f, bytes) ==
    /\ wire = <<>>
    /\ bytes # <<>>
    /\ stats.rxBytes + Len(bytes) <= MaxInput
    /\ wire' = bytes
    /\ sent' = f
    /\ damage' = "none"
    /\ fromSync' = (iproc.state = "SYNC")
    /\ nFrames' = nFrames + 1
    /\ mark' = [log |-> Len(rxLog), sink |-> Len(sink),
                errors |-> stats.rxErrors, objects |-> stats.rxObjects]
    /\ UNCHANGED <<sinceSync, replyTo, sectionVars>>
    /\ UNCHANGED connVars
    /\ UNCHANGED taskVars

PeerSend(f) ==
    /\ PutOnWire(f, Encoded[f])
    /\ last' = [ev |-> "PeerSend", byte |-> 0, task |-> "none"]

PeerRaw(bytes) ==
    /\ PutOnWire(NoFrame, bytes)
    /\ last' = [ev |-> "PeerRaw", byte |-> 0, task |-> "none"]

Feed ==
    /\ wire # <<>>
    /\ FeedByte(Head(wire))
    /\ damage' = damage
    /\ last' = [ev |-> "Feed", byte |-> Head(wire), task |-> "rx"]

FeedCorrupt ==
    /\ wire # <<>>
    /\ damage = "none"
    /\ \E b \in Corrupt(Head(wire)) :
          /\ FeedByte(b)
          /\ last' = [ev |-> "FeedCorrupt", byte |-> b, task |-> "rx"]
    /\ damage' = IF Len(wire) = 1 THEN "cs" ELSE "other"

Next ==
    \/ \E f \in PeerFrames : PeerSend(f)
    \/ \E r \in RawFrames : PeerRaw(r)
    \/ Feed
    \/ FeedCorrupt

Spec == Init /\ [][Next]_vars

----------------------------------------------------------------------------
(* The transaction manager: caller tasks in objectTransaction, and the     *)
(* receive task taking in the peer's frames meanwhile.  A task's steps are *)
(* the stretches of objectTransaction between its blocking calls; a        *)
(* stretch under connection->lock takes and gives the lock in one step.    *)

\* A mutex that never blocks.
MutexAlways(mutex, t) == TRUE

\* A mutex nobody ever gets.
MutexNever(mutex, t) == FALSE

\* xSemaphoreTakeRecursive(mutex, portMAX_DELAY) returns for task t
MutexFree(mutex, t) == mutex = "free" \/ mutex = t

\* The calls the caller tasks make: [type, obj, instId], as objectTransaction
\* gets them from UAVTalkSendObjectRequest and UAVTalkSendObject.
CallOf(type, obj, instId) == [type |-> type, obj |-> obj, instId |-> instId]

Calls ==
    {CallOf(UAVTALK_TYPE_OBJ_REQ, ObjA, 0),
     CallOf(UAVTALK_TYPE_OBJ_ACK, ObjA, UAVOBJ_ALL_INSTANCES),
     CallOf(UAVTALK_TYPE_OBJ, ObjA, 0),
     CallOf(UAVTALK_TYPE_OBJ_REQ, ObjB, UAVOBJ_ALL_INSTANCES),
     CallOf(UAVTALK_TYPE_OBJ_ACK, ObjB, 1)}

InTransaction == {"send", "wait", "ok", "cancel", "fail"}

\* UAVTalkSendObjectRequest (type OBJ_REQ), UAVTalkSendObject with acked = 1
\* (type OBJ_ACK) or with acked = 0 (type OBJ): the call enters objectTransaction
Begin(t, cl) ==
    /\ pc[t] = "idle"
    /\ nCalls < MaxCalls
    /\ nCalls' = nCalls + 1
    /\ call' = [call EXCEPT ![t] = cl]
    /\ pc' = [pc EXCEPT ![t] = IF cl.type = UAVTALK_TYPE_OBJ_ACK
                                  \/ cl.type = UAVTALK_TYPE_OBJ_REQ
                               THEN "takeTrans" ELSE "sendNoAck"]
    /\ served' = [served EXCEPT ![t] = FALSE]
    /\ UNCHANGED <<lock, transLock, result>>
    /\ UNCHANGED connVars
    /\ UNCHANGED <<linkVars, last, replyTo, sectionVars>>

\* xSemaphoreTakeRecursive(connection->transLock, portMAX_DELAY)
TakeTransLock(t) ==
    /\ pc[t] = "takeTrans"
    /\ MutexFree(transLock, t)
    /\ transLock' = t
    /\ pc' = [pc EXCEPT ![t] = "send"]
    /\ UNCHANGED <<lock, call, result, served, nCalls>>
    /\ UNCHANGED connVars
    /\ UNCHANGED <<linkVars, last, replyTo, sectionVars>>

\* under connection->lock: record the pending target, send the frame
TransSend(t) ==
    /\ pc[t] = "send"
    /\ MutexFree(lock, t)
    /\ Store(sendObject([Conn(TRUE) EXCEPT !.respObj = call[t].obj,
                                           !.respInstId = call[t].instId],
                        call[t].obj, call[t].instId, call[t].type))
    /\ lock' = "free"
    /\ pc' = [pc EXCEPT ![t] = "wait"]
    /\ UNCHANGED <<transLock, call, result, served, nCalls>>
    /\ UNCHANGED <<linkVars, last, replyTo, sectionVars>>

\* xSemaphoreTake(connection->respSema, timeout) returns pdTRUE
WaitTake(t) ==
    /\ pc[t] = "wait"
    /\ respSema = 1
    /\ respSema' = 0
    /\ pc' = [pc EXCEPT ![t] = "ok"]
    /\ UNCHANGED <<iproc, stats, rxBuffer, txBuffer, respObj, respInstId, txSize,
                   outStream, sink, objData, rxLog>>
    /\ UNCHANGED <<lock, transLock, call, result, served, nCalls>>
    /\ UNCHANGED <<linkVars, last, replyTo, sectionVars>>

\* xSemaphoreTake(connection->respSema, timeout) returns pdFALSE: the timeout
\* has elapsed and the semaphore was not given
WaitTimeout(t) ==
    /\ pc[t] = "wait"
    /\ respSema = 0
    /\ pc' = [pc EXCEPT ![t] = "cancel"]
    /\ UNCHANGED <<lock, transLock, call, result, served, nCalls>>
    /\ UNCHANGED connVars
    /\ UNCHANGED <<linkVars, last, replyTo, sectionVars>>

\* under connection->lock: cancel the transaction
Cancel(t) ==
    /\ pc[t] = "cancel"
    /\ MutexFree(lock, t)
    /\ respSema' = 0
    /\ respObj' = NULL
    /\ lock' = "free"
    /\ pc' = [pc EXCEPT ![t] = "fail"]
    /\ UNCHANGED <<iproc, stats, rxBuffer, txBuffer, respInstId, txSize,
                   outStream, sink, objData, rxLog>>
    /\ UNCHANGED <<transLock, call, result, served, nCalls>>
    /\ UNCHANGED <<linkVars, last, replyTo, sectionVars>>

\* xSemaphoreGiveRecursive(connection->transLock); return -1 or 0
Return(t) ==
    /\ pc[t] \in {"fail", "ok"}
    /\ transLock' = "free"
    /\ result' = [result EXCEPT ![t] = IF pc[t] = "ok" THEN 0 ELSE -1]
    /\ pc' = [pc EXCEPT ![t] = "idle"]
    /\ UNCHANGED <<lock, call, served, nCalls>>
    /\ UNCHANGED connVars
    /\ UNCHANGED <<linkVars, last, replyTo, sectionVars>>

\* type OBJ: under connection->lock send the object; return 0
SendNoAck(t) ==
    /\ pc[t] = "sendNoAck"
    /\ MutexFree(lock, t)
    /\ Store(sendObject(Conn(TRUE), call[t].obj, call[t].instId, UAVTALK_TYPE_OBJ))
    /\ lock' = "free"
    /\ result' = [result EXCEPT ![t] = 0]
    /\ pc' = [pc EXCEPT ![t] = "idle"]
    /\ UNCHANGED <<transLock, call, served, nCalls>>
    /\ UNCHANGED <<linkVars, last, replyTo, sectionVars>>

\* The frames the peer sends while callers run.
TransFrames ==
    {Frame(t, ObjA, IdA, 0) : t \in {UAVTALK_TYPE_OBJ, UAVTALK_TYPE_ACK}}
    \cup {Frame(UAVTALK_TYPE_ACK, ObjB, IdB, 1), Frame(UAVTALK_TYPE_NACK, NULL, IdA, 0)}

\* One UAVTalkProcessInputStream call for each byte, in order.
RECURSIVE FeedAll(_, _)
FeedAll(c, bytes) ==
    IF bytes = <<>> THEN c
    ELSE FeedAll(UAVTalkProcessInputStream(c, Head(bytes)), Tail(bytes))

\* Entry e of the receiveObject log satisfies the transaction of call cl: a
\* DATA or ACK frame of the same object and a matching instance.
Satisfies(e, cl) ==
    /\ e.type \in {UAVTALK_TYPE_OBJ, UAVTALK_TYPE_ACK}
    /\ e.objId = UAVObjGetID(cl.obj)
    /\ e.instId # UAVOBJ_ALL_INSTANCES
    /\ (cl.instId = e.instId \/ cl.instId = UAVOBJ_ALL_INSTANCES)

\* The receive task takes in the bytes of frame f.  Only the last byte's call
\* touches what the callers share (it takes connection->lock for the
\* dispatch); the calls before it work on iproc and the receive counters.
RxTake(f) ==
    /\ nFrames < MaxRxFrames
    /\ MutexFree(lock, "rx")
    /\ \E ok \in BOOLEAN : Store(FeedAll(Conn(ok), Encoded[f]))
    /\ lock' = "free"
    /\ nFrames' = nFrames + 1
    /\ served' = [t \in Callers |->
                    \/ served[t]
                    \/ /\ pc[t] = "wait"
                       /\ Len(rxLog') > Len(rxLog)
                       /\ Satisfies(rxLog'[Len(rxLog')], call[t])]
    /\ sent' = f
    /\ UNCHANGED <<wire, damage, fromSync, sinceSync, mark, last>>
    /\ UNCHANGED <<transLock, pc, call, result, nCalls>>

\* a frame of the peer, whatever made the peer send it
RxFrame(f) == RxTake(f) /\ UNCHANGED <<replyTo, sectionVars>>

NextTrans ==
    \/ \E t \in Callers, cl \in Calls : Begin(t, cl)
    \/ \E t \in Callers : TakeTransLock(t)
    \/ \E t \in Callers : TransSend(t)
    \/ \E t \in Callers : WaitTake(t)
    \/ \E t \in Callers : WaitTimeout(t)
    \/ \E t \in Callers : Cancel(t)
    \/ \E t \in Callers : Return(t)
    \/ \E t \in Callers : SendNoAck(t)
    \/ \E f \in TransFrames : RxFrame(f)

SpecTrans == Init /\ [][NextTrans]_vars

\* Calls on the wildcard instance with an ack required, and calls whose
\* object cannot be serialized: ObjC is as long as the maximum payload, and
\* ObjB has no instance 2 to pack.
SendCalls ==
    {CallOf(UAVTALK_TYPE_OBJ_ACK, ObjA, UAVOBJ_ALL_INSTANCES),
     CallOf(UAVTALK_TYPE_OBJ_ACK, ObjB, UAVOBJ_ALL_INSTANCES),
     CallOf(UAVTALK_TYPE_OBJ, ObjC, 0),
     CallOf(UAVTALK_TYPE_OBJ_ACK, ObjC, 0),
     CallOf(UAVTALK_TYPE_OBJ, ObjB, 2)}

NextSend ==
    \/ \E t \in Callers, cl \in SendCalls : Begin(t, cl)
    \/ \E t \in Callers : TakeTransLock(t)
    \/ \E t \in Callers : TransSend(t)
    \/ \E t \in Callers : WaitTake(t)
    \/ \E t \in Callers : WaitTimeout(t)
    \/ \E t \in Callers : Cancel(t)
    \/ \E t \in Callers : Return(t)
    \/ \E t \in Callers : SendNoAck(t)
    \/ \E f \in TransFrames : RxFrame(f)

SpecSend == Init /\ [][NextSend]_vars

\* Task u's blocking call has put its frame on the link, now or before.
HasSent(u) ==
    /\ call[u].type \in {UAVTALK_TYPE_OBJ_REQ, UAVTALK_TYPE_OBJ_ACK}
    /\ pc[u] \in {"wait", "ok", "cancel", "fail", "idle"}

\* Frame f is an ACK or DATA frame for the target of call cl.
AnswerTo(f, cl) ==
    /\ f.type \in {UAVTALK_TYPE_ACK, UAVTALK_TYPE_OBJ}
    /\ f.obj = cl.obj
    /\ (cl.instId = f.instId \/ cl.instId = UAVOBJ_ALL_INSTANCES
            \/ UAVObjIsSingleInstance(cl.obj))

\* The peer's answer f to task u's frame arrives, at any time after that
\* frame was sent: the link may hold it back beyond the caller's timeout.
RxReply(f, u) ==
    /\ HasSent(u)
    /\ AnswerTo(f, call[u])
    /\ RxTake(f)
    /\ replyTo' = u
    /\ UNCHANGED sectionVars

\* The blocking calls on ObjA.
ReplyCalls ==
    {CallOf(UAVTALK_TYPE_OBJ_REQ, ObjA, 0),
     CallOf(UAVTALK_TYPE_OBJ_ACK, ObjA, UAVOBJ_ALL_INSTANCES)}

NextReply ==
    \/ \E t \in Callers, cl \in ReplyCalls : Begin(t, cl)
    \/ \E t \in Callers : TakeTransLock(t)
    \/ \E t \in Callers : TransSend(t)
    \/ \E t \in Callers : WaitTake(t)
    \/ \E t \in Callers : WaitTimeout(t)
    \/ \E t \in Callers : Cancel(t)
    \/ \E t \in Callers : Return(t)
    \/ \E f \in TransFrames, u \in Callers : RxReply(f, u)

SpecReply == Init /\ [][NextReply]_vars

----------------------------------------------------------------------------
(* The dispatcher on its own: the receive task's call has reached the lock *)
(* of the checksum state with a validated frame in iproc, whatever the     *)
(* kind, object and instance id of that frame, while a caller task runs    *)
(* its transactions.                                                       *)

\* [type, objId, instId, payload] of the frame in iproc and rxBuffer
Parsed(type, objId, instId) ==
    [type |-> type, obj |-> UAVObjGetByID(objId), objId |-> objId, instId |-> instId,
     payload |-> IF type \in {UAVTALK_TYPE_OBJ, UAVTALK_TYPE_OBJ_ACK}
                 THEN PeerPayload ELSE <<>>]

DispatchArgs ==
    {Parsed(UAVTALK_TYPE_OBJ_REQ, IdA, i) : i \in {0, UAVOBJ_ALL_INSTANCES}}
    \cup {Parsed(UAVTALK_TYPE_OBJ_REQ, IdB, i) : i \in {1, 2, UAVOBJ_ALL_INSTANCES}}
    \cup {Parsed(UAVTALK_TYPE_OBJ_REQ, IdC, 0), Parsed(UAVTALK_TYPE_OBJ_REQ, IdUnknown, 0)}
    \cup {Parsed(t, IdA, 0) : t \in {UAVTALK_TYPE_OBJ, UAVTALK_TYPE_OBJ_ACK,
                                     UAVTALK_TYPE_ACK, UAVTALK_TYPE_NACK}}
    \cup {Parsed(t, IdB, i) : t \in {UAVTALK_TYPE_OBJ, UAVTALK_TYPE_OBJ_ACK,
                                     UAVTALK_TYPE_ACK},
                              i \in {1, UAVOBJ_ALL_INSTANCES}}

\* The calls the caller task makes meanwhile.
DispatchCalls ==
    {CallOf(UAVTALK_TYPE_OBJ_REQ, ObjA, 0),
     CallOf(UAVTALK_TYPE_OBJ_ACK, ObjB, 1),
     CallOf(UAVTALK_TYPE_OBJ_ACK, ObjB, UAVOBJ_ALL_INSTANCES)}

\* xSemaphoreTakeRecursive(lock); receiveObject(...); the two counters;
\* xSemaphoreGiveRecursive(lock); iproc->state = UAVTALK_STATE_SYNC
RxDispatch(a) ==
    /\ nFrames < MaxRxFrames
    /\ MutexFree(lock, "rx")
    /\ \E ok \in BOOLEAN :
          Store(Dispatch([Conn(ok) EXCEPT
                             !.iproc.type = a.type,
                             !.iproc.objId = a.objId,
                             !.iproc.obj = a.obj,
                             !.iproc.instId = a.instId,
                             !.iproc.length = Len(a.payload),
                             !.rxBuffer = PutBytes(@, 0, a.payload)]))
    /\ lock' = "free"
    /\ nFrames' = nFrames + 1
    /\ sent' = a
    /\ UNCHANGED <<wire, damage, fromSync, sinceSync, mark, last, replyTo, sectionVars>>
    /\ UNCHANGED <<transLock, pc, call, result, served, nCalls>>

NextDispatch ==
    \/ \E cl \in DispatchCalls : Begin("t1", cl)
    \/ TakeTransLock("t1")
    \/ TransSend("t1")
    \/ WaitTake("t1")
    \/ WaitTimeout("t1")
    \/ Cancel("t1")
    \/ Return("t1")
    \/ \E a \in DispatchArgs : RxDispatch(a)

\* The dispatcher does not look at txSize: the sink takes whole packets.
InitDispatch == Init /\ txSize = UAVTALK_MAX_PACKET_LENGTH

SpecDispatch == InitDispatch /\ [][NextDispatch]_vars

----------------------------------------------------------------------------
(* The statistics: a task calls UAVTalkResetStats and UAVTalkGetStats      *)
(* while the receive task feeds bytes.  The value of lock tells where the  *)
(* statistics task is: "reset" and "get" hold the lock before the memset   *)
(* or memcpy, "done" holds it after.                                       *)

\* xSemaphoreTakeRecursive(connection->lock) in UAVTalkResetStats or UAVTalkGetStats
StatsTake(op) ==
    /\ lock = "free"
    /\ nCalls < MaxCalls
    /\ nCalls' = nCalls + 1
    /\ lock' = op
    /\ UNCHANGED <<transLock, pc, call, result, served, replyTo, sectionVars, last>>
    /\ UNCHANGED connVars
    /\ UNCHANGED linkVars

\* memset(&connection->stats, 0, sizeof(UAVTalkStats))
ResetClear ==
    /\ lock = "reset"
    /\ lock' = "done"
    /\ stats' = ZeroStats
    /\ UNCHANGED <<iproc, rxBuffer, txBuffer, respObj, respInstId, respSema, txSize,
                   outStream, sink, objData, rxLog>>
    /\ UNCHANGED <<transLock, pc, call, result, served, replyTo, sectionVars, nCalls, last>>
    /\ UNCHANGED linkVars

\* memcpy(statsOut, &connection->stats, sizeof(UAVTalkStats)): the copy goes
\* to the caller's memory
GetCopy ==
    /\ lock = "get"
    /\ lock' = "done"
    /\ UNCHANGED <<transLock, pc, call, result, served, replyTo, sectionVars, nCalls, last>>
    /\ UNCHANGED connVars
    /\ UNCHANGED linkVars

\* xSemaphoreGiveRecursive(connection->lock)
StatsGive ==
    /\ lock = "done"
    /\ lock' = "free"
    /\ UNCHANGED <<transLock, pc, call, result, served, replyTo, sectionVars, nCalls, last>>
    /\ UNCHANGED connVars
    /\ UNCHANGED linkVars

\* The receive task feeds a byte: the call takes the lock only for the
\* dispatch, so any other byte is processed whoever holds the lock.
FeedAnyTime ==
    /\ wire # <<>>
    /\ lock # "reset"
    /\ WillDispatch(iproc, Head(wire)) => lock = "free"
    /\ Feed

\* The byte's call runs while UAVTalkResetStats is at its memset: the
\* increments of rxBytes and rxErrors, made without the lock, race with the
\* memset, and each counter ends as the memset or as the increment left it.
FeedDuringReset ==
    /\ wire # <<>>
    /\ lock = "reset"
    /\ ~WillDispatch(iproc, Head(wire))
    /\ LET c == UAVTalkProcessInputStream(Conn(TRUE), Head(wire))
       IN  \E bytes \in {0, c.stats.rxBytes},
              errors \in {0, IF c.stats.rxErrors # stats.rxErrors
                             THEN c.stats.rxErrors ELSE 0} :
              Store([c EXCEPT !.stats = [ZeroStats EXCEPT !.rxBytes = bytes,
                                                          !.rxErrors = errors]])
    /\ lock' = "done"
    /\ wire' = Tail(wire)
    /\ sinceSync' = IF iproc'.state = "SYNC" THEN 0 ELSE sinceSync + 1
    /\ last' = [ev |-> "FeedDuringReset", byte |-> Head(wire), task |-> "rx"]
    /\ UNCHANGED <<sent, damage, fromSync, nFrames, mark>>
    /\ UNCHANGED <<transLock, pc, call, result, served, replyTo, sectionVars, nCalls>>

\* The frames fed meanwhile: one that is dispatched, one that is rejected.
StatsFrames ==
    {Frame(UAVTALK_TYPE_OBJ, ObjA, IdA, 0), Frame(UAVTALK_TYPE_ACK, ObjB, IdB, 1)}

\* Frames that reach the checksum byte and fail there: ObjA's DATA frame with
\* a wrong checksum, and an ACK of ObjB with the instance id left out of the
\* length field, which fails the final length check.
StatsRaw ==
    {Append(<<UAVTALK_SYNC_VAL, UAVTALK_TYPE_OBJ, 12, 0>> \o IdA \o PeerPayload,
            (CrcSeq(0, <<UAVTALK_SYNC_VAL, UAVTALK_TYPE_OBJ, 12, 0>> \o IdA
                            \o PeerPayload) + 1) % 256),
     WithChecksum(<<UAVTALK_SYNC_VAL, UAVTALK_TYPE_ACK, 8, 0>> \o IdB \o <<1, 0>>)}

NextStats ==
    \/ \E f \in StatsFrames : PeerSend(f)
    \/ \E r \in StatsRaw : PeerRaw(r)
    \/ FeedAnyTime
    \/ FeedDuringReset
    \/ \E op \in {"reset", "get"} : StatsTake(op)
    \/ ResetClear
    \/ GetCopy
    \/ StatsGive

SpecStats == Init /\ [][NextStats]_vars

----------------------------------------------------------------------------
(* All contexts together: caller tasks in their transactions, a task in    *)
(* UAVTalkGetStats holding the state lock, and the receive task feeding    *)
(* the peer's bytes, which needs the lock for the dispatch.                *)

LiveCalls == {CallOf(UAVTALK_TYPE_OBJ_REQ, ObjA, 0), CallOf(UAVTALK_TYPE_OBJ, ObjA, 0)}

LiveFrames == {Frame(UAVTALK_TYPE_ACK, ObjA, IdA, 0)}

\* The receive task's call for the next byte: it waits for the lock if the
\* byte is to be dispatched.
FeedLocked ==
    /\ wire # <<>>
    /\ WillDispatch(iproc, Head(wire)) => MutexFree(lock, "rx")
    /\ Feed

\* The steps of a caller task once its call has begun.
TaskStep(t) ==
    \/ TakeTransLock(t)
    \/ TransSend(t)
    \/ WaitTake(t)
    \/ WaitTimeout(t)
    \/ Cancel(t)
    \/ Return(t)
    \/ SendNoAck(t)

\* The steps of UAVTalkGetStats once it has the lock.
StatsStep == GetCopy \/ StatsGive

NextLive ==
    \/ \E t \in Callers, cl \in LiveCalls : Begin(t, cl)
    \/ \E t \in Callers : TaskStep(t)
    \/ \E f \in LiveFrames : PeerSend(f)
    \/ FeedLocked
    \/ StatsTake("get")
    \/ StatsStep

\* Task t is not held up: the mutex it asks for is free, or it is at the
\* wait on respSema, which ends with the signal or with the timeout, or it
\* is about to return.
CanStep(t) ==
    \/ pc[t] = "takeTrans" /\ MutexFree(transLock, t)
    \/ pc[t] \in {"send", "cancel", "sendNoAck"} /\ MutexFree(lock, t)
    \/ pc[t] \in {"wait", "ok", "fail"}

\* A step of task t, by what it does to the task's position.
TaskRuns(t) ==
    /\ CanStep(t)
    /\ \E p \in {"send", "wait", "ok", "cancel", "fail", "idle"} \ {pc[t]} :
           pc' = [pc EXCEPT ![t] = p]

\* A byte-feed call of the receive task, by what it does to the bytes waiting.
ByteFed ==
    /\ wire # <<>>
    /\ WillDispatch(iproc, Head(wire)) => MutexFree(lock, "rx")
    /\ wire' = Tail(wire)

\* The scheduler runs every context that can run, and a timeout is finite:
\* a task that can take a step does not wait for ever.  TaskRuns(t) and
\* ByteFed are the steps TaskStep(t) and FeedLocked, and are enabled when
\* these are.
Fairness ==
    /\ \A t \in Callers : WF_pc(TaskRuns(t))
    /\ WF_wire(ByteFed)
    /\ WF_vars(StatsStep)

SpecLive == InitDispatch /\ [][NextLive]_vars /\ Fairness

----------------------------------------------------------------------------
(* What the last frame on the wire did, once its bytes are fed.            *)

\* The frame on the wire has been fed whole.
FrameFed == nFrames > 0 /\ wire = <<>> /\ last.ev \in {"Feed", "FeedCorrupt"}

\* ... byte for byte as sent, to a receiver that was in SYNC
FedIntact == FrameFed /\ damage = "none" /\ fromSync

\* The invocations of receiveObject since the frame began.
NewLog == SubSeq(rxLog, mark.log + 1, Len(rxLog))

\* The bytes written to the sink since the frame began.
NewSink == Flatten(SubSeq(sink, mark.sink + 1, Len(sink)))

\* The frames of the transmitter on objects both sides hold, and its NACKs.
SameRegistry(f) == f.obj \in {ObjA, ObjB, ObjC} \/ f.type = UAVTALK_TYPE_NACK

\* receiveObject was invoked with frame f's kind, object id, instance id, payload.
DispatchedAs(e, f) ==
    /\ e.type = f.type
    /\ e.objId = f.objId
    /\ e.instId = (IF UAVObjIsSingleInstance(f.obj) THEN 0 ELSE f.instId)
    /\ e.data = f.payload

(* C4: every frame the transmitter produces, fed in order to a receiver in *)
(* SYNC with the same registry, is dispatched exactly once, with the same  *)
(* kind, object id, instance id and payload.                               *)
C4_RoundTrip ==
    (FedIntact /\ SameRegistry(sent))
        => (Len(NewLog) = 1 /\ DispatchedAs(NewLog[1], sent))

(* C5: a frame of the transmitter fed from SYNC with only its checksum     *)
(* byte wrong adds exactly one to rxErrors, does not invoke receiveObject, *)
(* leaves rxObjects as it was and the receiver in SYNC.                    *)
C5_BadChecksum ==
    (FrameFed /\ fromSync /\ damage = "cs" /\ sent \in PeerFrames)
        => /\ stats.rxErrors = mark.errors + 1
           /\ NewLog = <<>>
           /\ stats.rxObjects = mark.objects
           /\ iproc.state = "SYNC"

\* a DATA frame of ObjA has been fed with its checksum byte changed
C5_Witness ==
    /\ FrameFed /\ fromSync /\ damage = "cs"
    /\ sent = Frame(UAVTALK_TYPE_OBJ, ObjA, IdA, 0)

(* C6: the receiver is never out of SYNC for as many bytes as the longest  *)
(* packet has (maximum header + maximum payload + checksum): from any      *)
(* state it is in SYNC again within that many further bytes.               *)
C6_NoLockup ==
    sinceSync < UAVTALK_MAX_HEADER_LENGTH + UAVTALK_MAX_PAYLOAD_LENGTH
                    + UAVTALK_CHECKSUM_LENGTH

\* a frame with a changed byte has taken the receiver into its payload
C6_Witness ==
    /\ damage = "other"
    /\ iproc.state = "DATA"
    /\ sinceSync > UAVTALK_MIN_HEADER_LENGTH

\* The step fed a byte that ends a frame: receiveObject was invoked, a receive
\* error was counted, or the byte closed a header with a wrong version or an
\* impossible size.
EndsFrame ==
    \/ Len(rxLog') > Len(rxLog)
    \/ stats'.rxErrors > stats.rxErrors
    \/ /\ iproc.state = "TYPE"
       /\ stats'.rxBytes > stats.rxBytes
       /\ And8(last'.byte, UAVTALK_TYPE_MASK) # UAVTALK_TYPE_VER
    \/ /\ iproc.state = "SIZE"
       /\ iproc.rxCount = 1
       /\ stats'.rxBytes > stats.rxBytes
       /\ LET size == iproc.packet_size + last'.byte * 256
          IN  \/ size < UAVTALK_MIN_HEADER_LENGTH
              \/ size > UAVTALK_MAX_HEADER_LENGTH + UAVTALK_MAX_PAYLOAD_LENGTH

(* C7: after every input byte the receiver state is one of the seven       *)
(* states, and every step that ends a frame, by acceptance or by           *)
(* rejection, leaves the receiver in SYNC.                                 *)
C7_BackToSync ==
    [][/\ iproc'.state \in RxStates
       /\ EndsFrame => iproc'.state = "SYNC"]_vars

\* frames have ended both ways: one was dispatched, one was rejected
C7_Witness ==
    /\ FrameFed
    /\ stats.rxErrors > 0
    /\ stats.rxObjects > 0
    /\ iproc.state = "SYNC"

\* The bytes of a frame with no payload: header and checksum.
HeaderFrame(type, objId) ==
    WithChecksum(<<UAVTALK_SYNC_VAL, type, UAVTALK_MIN_HEADER_LENGTH, 0>> \o objId)

(* C8: a REQUEST frame for an object id the registry does not resolve      *)
(* makes the receiver write exactly one NACK frame with that id, no        *)
(* instance id and no payload, and leaves rxErrors as it was.              *)
C8_NackForUnknown ==
    (FedIntact /\ sent = Frame(UAVTALK_TYPE_OBJ_REQ, ObjU, IdUnknown, 0))
        => /\ NewSink = HeaderFrame(UAVTALK_TYPE_NACK, IdUnknown)
           /\ stats.rxErrors = mark.errors

\* the REQUEST for the unknown id has been fed and answered
C8_Witness ==
    /\ FedIntact
    /\ sent = Frame(UAVTALK_TYPE_OBJ_REQ, ObjU, IdUnknown, 0)
    /\ Len(NewLog) = 1

\* The step is task t's send, in a transaction of call cl.
SendStep(t, cl) == pc[t] = "send" /\ pc'[t] = "wait" /\ call[t] = cl

\* The bytes the step wrote to the sink.
Written == Flatten(SubSeq(sink', Len(sink) + 1, Len(sink')))

\* Marker, kind, 2-byte length field, object id, payload, checksum.
WireBytes(type, lengthField, objId, payload) ==
    WithChecksum(<<UAVTALK_SYNC_VAL, type, lengthField % 256, lengthField \div 256>>
                     \o objId \o payload)

SentWithLength(lengthField) ==
    \A t \in Callers :
        SendStep(t, CallOf(UAVTALK_TYPE_OBJ_ACK, ObjA, UAVOBJ_ALL_INSTANCES))
            => Written = WireBytes(UAVTALK_TYPE_OBJ_ACK, lengthField, IdA,
                                   UAVObjPack(objData, ObjA, 0))

(* C9 as written: sending DATA-WITH-ACK for the single-instance 4-byte     *)
(* ObjA writes marker, kind, a length field of 13, the object id, the      *)
(* payload and the checksum over all of them.                              *)
C9_LengthThirteen ==
    [][SentWithLength(UAVTALK_MIN_HEADER_LENGTH + UAVObjGetNumBytes(ObjA)
                          + UAVTALK_CHECKSUM_LENGTH)]_vars

(* C9 amended: the same bytes, with a length field of 12: the header and   *)
(* the payload, the checksum byte not counted.                             *)
C9_LengthTwelve ==
    [][SentWithLength(UAVTALK_MIN_HEADER_LENGTH + UAVObjGetNumBytes(ObjA))]_vars

\* a task has sent DATA-WITH-ACK for ObjA and waits for the answer
C9_Witness ==
    \E t \in Callers :
        /\ pc[t] = "wait"
        /\ call[t] = CallOf(UAVTALK_TYPE_OBJ_ACK, ObjA, UAVOBJ_ALL_INSTANCES)
        /\ sink # <<>>

(* C10: a valid DATA-WITH-ACK frame for the single-instance ObjA whose     *)
(* unpack succeeds leaves the payload in the object and exactly one ACK    *)
(* frame for ObjA, with no payload, in the sink, by the end of the call    *)
(* that took the frame's last byte.                                        *)
C10_AckAfterUnpack ==
    (/\ FedIntact
     /\ sent = Frame(UAVTALK_TYPE_OBJ_ACK, ObjA, IdA, 0)
     /\ Len(NewLog) = 1
     /\ NewLog[1].ret = 0)
        => /\ objData[ObjA][0] = PeerPayload
           /\ NewSink = HeaderFrame(UAVTALK_TYPE_ACK, IdA)

\* the DATA-WITH-ACK frame has been fed and its unpack succeeded
C10_Witness ==
    /\ FedIntact
    /\ sent = Frame(UAVTALK_TYPE_OBJ_ACK, ObjA, IdA, 0)
    /\ Len(NewLog) = 1
    /\ NewLog[1].ret = 0

----------------------------------------------------------------------------
(* The transaction manager's claims, under SpecTrans.                      *)

(* C1: at most one task is between taking and giving transLock, and it is  *)
(* the holder: no second task records its target or sends its frame until  *)
(* the first has returned.                                                 *)
C1_OneTransaction ==
    \A t, u \in Callers :
        /\ (pc[t] \in InTransaction /\ pc[u] \in InTransaction) => t = u
        /\ pc[t] \in InTransaction => transLock = t

\* one task waits for its answer while the other is blocked on transLock
C1_Witness ==
    \E t, u \in Callers : pc[t] = "wait" /\ pc[u] = "takeTrans"

\* The step is task t's return from a blocking transaction.
ReturnStep(t) == pc[t] \in {"ok", "fail"} /\ pc'[t] = "idle"

(* C2: a blocking transaction during whose wait a satisfying frame was     *)
(* dispatched returns 0, and respObj is empty when it returns.             *)
C2_ServedReturnsZero ==
    [][\A t \in Callers :
          (ReturnStep(t) /\ served[t]) => (result'[t] = 0 /\ respObj' = NULL)]_vars

\* a request has returned after a satisfying frame came during its wait
C2_Witness ==
    \E t \in Callers :
        /\ pc[t] = "idle"
        /\ served[t]
        /\ call[t].type = UAVTALK_TYPE_OBJ_REQ
        /\ result[t] = 0

(* C3: a blocking transaction during whose wait no satisfying frame was    *)
(* dispatched returns -1, and when it returns respObj is empty, respSema   *)
(* is clear and transLock is given back.                                   *)
C3_UnservedReturnsFail ==
    [][\A t \in Callers :
          (ReturnStep(t) /\ ~served[t])
              => /\ result'[t] = -1
                 /\ respObj' = NULL
                 /\ respSema' = 0
                 /\ transLock' # t]_vars

\* Task t is in a call of UAVTalkSendObject with acked = 1 on the wildcard instance.
WildcardAck(t) ==
    /\ call[t].type = UAVTALK_TYPE_OBJ_ACK
    /\ call[t].instId = UAVOBJ_ALL_INSTANCES

\* The step is one of task t's own, out of position p.
StepFrom(t, p) == pc[t] = p /\ pc'[t] # p

RECURSIVE AckedFrames(_, _, _, _)
AckedFrames(data, obj, n, numInst) ==
    IF n >= numInst THEN <<>>
    ELSE (IF UAVObjIsSingleInstance(obj)
          THEN WireBytes(UAVTALK_TYPE_OBJ_ACK,
                         UAVTALK_MIN_HEADER_LENGTH + UAVObjGetNumBytes(obj),
                         UAVObjGetID(obj), data[obj][n])
          ELSE WireBytes(UAVTALK_TYPE_OBJ_ACK,
                         UAVTALK_MAX_HEADER_LENGTH + UAVObjGetNumBytes(obj),
                         UAVObjGetID(obj) \o <<n % 256, n \div 256>>, data[obj][n]))
         \o AckedFrames(data, obj, n + 1, numInst)

C12_NoAckNeverBlocks ==
    [][\A t \in Callers :
          /\ pc'[t] = "sendNoAck" => transLock' # t
          /\ StepFrom(t, "sendNoAck")
                => /\ pc'[t] = "idle"
                   /\ transLock' = transLock
                   /\ respObj' = respObj
                   /\ respInstId' = respInstId
                   /\ respSema' = respSema]_vars

\* a DATA frame was sent without ack after another task's REQUEST, and that
\* task is still waiting with its target pending
C12_Witness ==
    \E t, u \in Callers :
        /\ pc[u] = "wait"
        /\ call[u] = CallOf(UAVTALK_TYPE_OBJ_REQ, ObjA, 0)
        /\ respObj = ObjA
        /\ pc[t] = "idle"
        /\ call[t] = CallOf(UAVTALK_TYPE_OBJ, ObjA, 0)
        /\ Flatten(sink) = HeaderFrame(UAVTALK_TYPE_OBJ_REQ, IdA)
                             \o WireBytes(UAVTALK_TYPE_OBJ,
                                          UAVTALK_MIN_HEADER_LENGTH + UAVObjGetNumBytes(ObjA),
                                          IdA, objData[ObjA][0])

\* The step is the receive task taking in frame f.
RxStep(f) == nFrames' = nFrames + 1 /\ sent' = f

\* Task t's last call was a blocking transaction that timed out.
TimedOut(t) ==
    /\ pc[t] = "idle"
    /\ call[t].type \in {UAVTALK_TYPE_OBJ_REQ, UAVTALK_TYPE_OBJ_ACK}
    /\ result[t] = -1

\* No task has a target recorded and not yet completed or cancelled.
NonePending == \A u \in Callers : pc[u] \notin {"wait", "cancel"}

\* The frame is taken as an ordinary frame: no signal, no error, counted.
Ordinary ==
    /\ respSema' = respSema
    /\ stats'.rxErrors = stats.rxErrors
    /\ stats'.rxObjects = stats.rxObjects + 1
    /\ Len(rxLog') = Len(rxLog) + 1

(* C13: after a blocking transaction has timed out, and while no           *)
(* transaction is pending, an ACK or DATA frame for the timed-out target   *)
(* does not raise respSema, does not count a receive error and is counted  *)
(* as a received object.                                                   *)
C13_LateAnswerOrdinary ==
    [][\A t \in Callers, f \in TransFrames :
          (TimedOut(t) /\ NonePending /\ AnswerTo(f, call[t]) /\ RxStep(f))
              => Ordinary]_vars

\* the same, for single-instance targets only
C13_SingleInstance ==
    [][\A t \in Callers, f \in TransFrames :
          (/\ TimedOut(t) /\ NonePending /\ AnswerTo(f, call[t]) /\ RxStep(f)
           /\ UAVObjIsSingleInstance(call[t].obj))
              => Ordinary]_vars

\* The step completes task t's waiting transaction.
Completes(t) == pc[t] = "wait" /\ ~served[t] /\ served'[t]

(* C14: a blocking transaction is completed only by a frame the peer sent  *)
(* in response to that transaction's own frame, never by the answer to an  *)
(* earlier transaction.                                                    *)
C14_NoMismatchedCompletion ==
    [][\A t \in Callers : Completes(t) => replyTo' = t]_vars

(* C15: every change of a statistics counter is made by the context that  *)
(* holds the state lock: while UAVTalkResetStats or UAVTalkGetStats holds  *)
(* the lock, no step of another context changes a counter.                 *)
C15_StatsUnderLock ==
    [][(lock \in {"reset", "get", "done"} /\ wire' # wire) => stats' = stats]_vars

\* The step feeds, in ReadKind, a byte whose version bits are not the protocol's.
BadVersionFed ==
    /\ iproc.state = "TYPE"
    /\ stats'.rxBytes > stats.rxBytes
    /\ And8(last'.byte, UAVTALK_TYPE_MASK) # UAVTALK_TYPE_VER

\* The step feeds, in ReadLength, the second length byte and the length is
\* below the minimum header or above maximum header plus maximum payload.
BadSizeFed ==
    /\ iproc.state = "SIZE"
    /\ iproc.rxCount = 1
    /\ stats'.rxBytes > stats.rxBytes
    /\ LET size == iproc.packet_size + last'.byte * 256
       IN  \/ size < UAVTALK_MIN_HEADER_LENGTH
           \/ size > UAVTALK_MAX_HEADER_LENGTH + UAVTALK_MAX_PAYLOAD_LENGTH

(* C16: a byte with a wrong version tag in ReadKind, or a length outside   *)
(* [minimum header, maximum header + maximum payload] in ReadLength, takes *)
(* the receiver back to SYNC and increments rxErrors by exactly one.       *)
C16_HeaderRejectCounted ==
    [][(BadVersionFed \/ BadSizeFed)
          => /\ iproc'.state = "SYNC"
             /\ stats'.rxErrors = stats.rxErrors + 1]_vars

\* What the code does on these bytes: back to SYNC, rxErrors as it was.
C16_HeaderRejectSilent ==
    [][(BadVersionFed \/ BadSizeFed)
          => /\ iproc'.state = "SYNC"
             /\ stats'.rxErrors = stats.rxErrors]_vars

\* sendObject fails on the call: the object is too long for a packet or the
\* instance cannot be packed.
SerializationFails(cl) ==
    sendObject(Conn(TRUE), cl.obj, cl.instId, cl.type).ret = -1

\* The step is task t's return from UAVTalkSendObject.
SendReturns(t) ==
    /\ call[t].type \in {UAVTALK_TYPE_OBJ, UAVTALK_TYPE_OBJ_ACK}
    /\ pc[t] \in {"ok", "fail", "sendNoAck"}
    /\ pc'[t] = "idle"

(* C17: when serialization fails, because the object is too long or the    *)
(* pack fails, UAVTalkSendObject returns -1, without ack as well as with.  *)
C17_FailedSendReturnsFail ==
    [][\A t \in Callers :
          (SendReturns(t) /\ SerializationFails(call[t])) => result'[t] = -1]_vars

(* C18: every single write handed to the output stream, for every kind of *)
(* frame, the NACK included, is at most txSize bytes long.                 *)
C18_WritesWithinTxSize ==
    \A i \in DOMAIN sink : Len(sink[i]) <= txSize

\* A DATA frame for the object of call cl was received while the call
\* waited, and its payload is in the registry.
DataUnpackedFor(t) ==
    /\ served[t]
    /\ sent.type = UAVTALK_TYPE_OBJ
    /\ sent.obj = call[t].obj
    /\ sent.instId \in DOMAIN objData[sent.obj]
    /\ objData[sent.obj][sent.instId] = sent.payload

(* C19: UAVTalkSendObjectRequest returns 0 only if, between sending the    *)
(* REQUEST and returning, a DATA frame for the requested object was        *)
(* received and its payload was unpacked successfully.                     *)
C19_ZeroOnlyAfterUnpackedData ==
    [][\A t \in Callers :
          (ReturnStep(t) /\ call[t].type = UAVTALK_TYPE_OBJ_REQ /\ result'[t] = 0)
              => DataUnpackedFor(t)]_vars

\* The step feeds the fourth object-id byte and the id resolves to no object.
UnresolvedIdFed ==
    /\ iproc.state = "OBJID"
    /\ iproc.rxCount = 3
    /\ stats'.rxBytes > stats.rxBytes
    /\ UAVObjGetByID(U32AddShifted(iproc.objId, last'.byte, 3)) = NULL

(* C20: when the fourth object-id byte completes an id that resolves to no *)
(* object and the kind is not REQUEST, rxErrors grows by one, the receiver *)
(* is back in SYNC and nothing is dispatched; when the kind is REQUEST the *)
(* frame is not rejected for that: with the declared length that of a bare *)
(* header it goes on to the checksum and no error is counted.              *)
C20_UnresolvedIdRejected ==
    [][UnresolvedIdFed
          => IF iproc.type # UAVTALK_TYPE_OBJ_REQ
             THEN /\ stats'.rxErrors = stats.rxErrors + 1
                  /\ iproc'.state = "SYNC"
                  /\ rxLog' = rxLog
             ELSE Counted(iproc).rxPacketLength = iproc.packet_size
                     => /\ stats'.rxErrors = stats.rxErrors
                        /\ iproc'.state = "CS"]_vars

\* a REQUEST for the unknown id was dispatched, then a NACK for it was fed
\* whole and counted as one receive error
C20_Witness ==
    /\ FedIntact
    /\ sent = Frame(UAVTALK_TYPE_NACK, NULL, IdUnknown, 0)
    /\ stats.rxErrors = mark.errors + 1
    /\ NewLog = <<>>
    /\ \E i \in DOMAIN rxLog :
          rxLog[i].type = UAVTALK_TYPE_OBJ_REQ /\ rxLog[i].objId = IdUnknown

\* The step feeds the fourth object-id byte and the frame goes on to the
\* length checks: the id resolves, or the kind is REQUEST.
ResolvedIdFed ==
    /\ iproc.state = "OBJID"
    /\ iproc.rxCount = 3
    /\ stats'.rxBytes > stats.rxBytes
    /\ \/ UAVObjGetByID(U32AddShifted(iproc.objId, last'.byte, 3)) # NULL
       \/ iproc.type = UAVTALK_TYPE_OBJ_REQ

\* The payload length the registry gives for the frame being received.
ExpectedLength ==
    IF iproc.type \in {UAVTALK_TYPE_OBJ_REQ, UAVTALK_TYPE_ACK, UAVTALK_TYPE_NACK}
    THEN 0
    ELSE UAVObjGetNumBytes(UAVObjGetByID(U32AddShifted(iproc.objId, last'.byte, 3)))

(* C21: at completion of the object id the receiver rejects the frame      *)
(* exactly when the expected payload length exceeds the maximum payload    *)
(* length or bytes received so far plus payload length differ from the     *)
(* declared length, so a frame of an object as long as the maximum is      *)
(* accepted; and the transmitter sends such an object when asked for it.   *)
C21_MaxLengthAccepted ==
    /\ [][ResolvedIdFed
            => ((iproc'.state = "SYNC")
                   <=> \/ ExpectedLength > UAVTALK_MAX_PAYLOAD_LENGTH
                       \/ Counted(iproc).rxPacketLength + ExpectedLength
                              # iproc.packet_size)]_vars
    /\ [](FedIntact /\ sent = Frame(UAVTALK_TYPE_OBJ_REQ, ObjC, IdC, 0)
            => NewSink # <<>>)

\* What the code does: the frame is rejected from the maximum on.
C21_MaxLengthRejected ==
    [][ResolvedIdFed
          => ((iproc'.state = "SYNC" /\ stats'.rxErrors = stats.rxErrors + 1)
                 <=> \/ ExpectedLength >= UAVTALK_MAX_PAYLOAD_LENGTH
                     \/ Counted(iproc).rxPacketLength + ExpectedLength
                            # iproc.packet_size)]_vars

\* The step is a byte-feed call that invoked receiveObject.
DispatchStep == Len(rxLog') = Len(rxLog) + 1

\* The step feeds the checksum byte of a frame, the byte equals the checksum
\* computed and the bytes received are the declared length and the checksum.
PassesFinalChecks ==
    /\ wire # <<>>
    /\ wire' = Tail(wire)
    /\ iproc.state = "CS"
    /\ Head(wire) = iproc.cs
    /\ Counted(iproc).rxPacketLength = iproc.packet_size + 1

(* C22: receiveObject is invoked once for each frame that passes the       *)
(* checksum and final length checks and on no other byte, never while      *)
(* another context holds the state lock; in that step rxObjects grows by 1 *)
(* and rxObjectBytes by the payload length, rxErrors stays, whatever       *)
(* receiveObject returns.                                                  *)
C22_DispatchOncePerFrame ==
    [][/\ Len(rxLog') \in {Len(rxLog), Len(rxLog) + 1}
       /\ DispatchStep <=> PassesFinalChecks
       /\ DispatchStep
             => /\ lock = "free" /\ lock' = "free"
                /\ stats'.rxObjects = stats.rxObjects + 1
                /\ stats'.rxObjectBytes = stats.rxObjectBytes + iproc.length
                /\ stats'.rxErrors = stats.rxErrors]_vars

\* ObjA's DATA frame has been dispatched after a call of UAVTalkGetStats or
\* UAVTalkResetStats, and counted with its four payload bytes
C22_Witness ==
    /\ nCalls > 0
    /\ wire = <<>>
    /\ last.ev = "Feed"
    /\ Len(rxLog) > 0
    /\ rxLog[Len(rxLog)].type = UAVTALK_TYPE_OBJ
    /\ stats.rxObjects = 1
    /\ stats.rxObjectBytes = 4

\* The step dispatched a frame and the frame's payload is not in the registry
\* after it: UAVObjUnpack failed.
UnpackFailed ==
    /\ DispatchStep
    /\ LET e == rxLog'[Len(rxLog')]
       IN  ~ /\ iproc.instId \in DOMAIN objData'[iproc.obj]
             /\ objData'[iproc.obj][iproc.instId] = e.data

(* C23: when the unpack of a received DATA-WITH-ACK frame fails,           *)
(* receiveObject returns -1, no ACK is written to the sink, and the        *)
(* pending slot, the completion signal and the registry stay as they were. *)
C23_FailedUnpackNoAck ==
    [][(iproc.type = UAVTALK_TYPE_OBJ_ACK /\ UnpackFailed)
          => /\ rxLog'[Len(rxLog')].ret = -1
             /\ sink' = sink
             /\ respObj' = respObj
             /\ respInstId' = respInstId
             /\ respSema' = respSema
             /\ objData' = objData]_vars

\* ObjA's DATA-WITH-ACK frame has been fed whole, its unpack failed and
\* nothing was written in answer
C23_Witness ==
    /\ FedIntact
    /\ sent = Frame(UAVTALK_TYPE_OBJ_ACK, ObjA, IdA, 0)
    /\ Len(NewLog) = 1
    /\ NewLog[1].ret = -1
    /\ NewSink = <<>>
    /\ objData = InitData

\* The step is the dispatch of a REQUEST for a registered object, frame a.
RequestStep(a) ==
    /\ RxStep(a)
    /\ a.type = UAVTALK_TYPE_OBJ_REQ
    /\ a.obj # NULL

\* The instance id the transmitter uses for the request's instance id.
RequestedInstance(a) ==
    IF a.instId = UAVOBJ_ALL_INSTANCES /\ UAVObjIsSingleInstance(a.obj) THEN 0 ELSE a.instId

\* The request asks for every instance of a multi-instance object.
AllRequested(a) == a.instId = UAVOBJ_ALL_INSTANCES /\ ~UAVObjIsSingleInstance(a.obj)

\* The DATA frame of one instance of obj as it goes on the wire.
DataFrame(data, obj, n) ==
    IF UAVObjIsSingleInstance(obj)
    THEN WireBytes(UAVTALK_TYPE_OBJ, UAVTALK_MIN_HEADER_LENGTH + UAVObjGetNumBytes(obj),
                   UAVObjGetID(obj), data[obj][n])
    ELSE WireBytes(UAVTALK_TYPE_OBJ, UAVTALK_MAX_HEADER_LENGTH + UAVObjGetNumBytes(obj),
                   UAVObjGetID(obj) \o <<n % 256, n \div 256>>, data[obj][n])

\* DATA frames of obj, one for each of its instances from n on, in order.
RECURSIVE DataFrames(_, _, _, _)
DataFrames(data, obj, n, numInst) ==
    IF n >= numInst THEN <<>>
    ELSE DataFrame(data, obj, n) \o DataFrames(data, obj, n + 1, numInst)

\* The instance exists and the object is shorter than the longest payload.
Serializable(obj, n) ==
    /\ UAVObjGetNumBytes(obj) < UAVTALK_MAX_PAYLOAD_LENGTH
    /\ UAVObjPackOk(objData, obj, n)

SlotMatches(a) ==
    /\ respObj # NULL
    /\ respObj = a.obj
    /\ (respInstId = a.instId \/ respInstId = UAVOBJ_ALL_INSTANCES)

(* C25: on the dispatch of a DATA or ACK frame with an exact instance id   *)
(* the completion signal is given exactly when a transaction is pending,   *)
(* its object is the frame's and its instance is the frame's or the        *)
(* wildcard, and then the pending slot is cleared in the same step;        *)
(* otherwise slot and signal stay as they were; rxErrors stays either way. *)
C25_SignalIffSlotMatches ==
    [][\A a \in DispatchArgs :
          (RxStep(a) /\ a.type \in {UAVTALK_TYPE_OBJ, UAVTALK_TYPE_ACK}
             /\ a.instId # UAVOBJ_ALL_INSTANCES)
              => /\ stats'.rxErrors = stats.rxErrors
                 /\ respInstId' = respInstId
                 /\ IF SlotMatches(a)
                    THEN respSema' = 1 /\ respObj' = NULL
                    ELSE respSema' = respSema /\ respObj' = respObj]_vars

\* the wildcard send with ack of ObjB is waiting and an ACK for instance 1 of
\* ObjB has given the signal and cleared the slot
C25_Witness ==
    /\ pc["t1"] = "wait"
    /\ call["t1"] = CallOf(UAVTALK_TYPE_OBJ_ACK, ObjB, UAVOBJ_ALL_INSTANCES)
    /\ sent = Parsed(UAVTALK_TYPE_ACK, IdB, 1)
    /\ respSema = 1
    /\ respObj = NULL
    /\ respInstId = UAVOBJ_ALL_INSTANCES

\* The step dispatches ACK frame a, which carries the wildcard instance id,
\* while a transaction on the frame's object with an exact instance is pending.
WildcardAckForExact(a) ==
    /\ RxStep(a)
    /\ a.type = UAVTALK_TYPE_ACK
    /\ a.instId = UAVOBJ_ALL_INSTANCES
    /\ respObj # NULL
    /\ respObj = a.obj
    /\ respInstId # UAVOBJ_ALL_INSTANCES

OnlyNacks ==
    /\ rxLog # <<>>
    /\ \A i \in DOMAIN rxLog : rxLog[i].type = UAVTALK_TYPE_NACK

(* C27: the receipt of a NACK frame never gives the completion signal and  *)
(* never changes the pending slot or anything else the dispatcher works    *)
(* on, so a blocking call to which only NACKs came returns -1, from its    *)
(* timeout.                                                                *)
C27_NackNoEffect ==
    [][/\ \A f \in TransFrames :
             (RxStep(f) /\ f.type = UAVTALK_TYPE_NACK)
                 => /\ respSema' = respSema
                    /\ respObj' = respObj
                    /\ respInstId' = respInstId
                    /\ sink' = sink
                    /\ objData' = objData
       /\ \A t \in Callers :
             (ReturnStep(t) /\ OnlyNacks) => (pc[t] = "fail" /\ result'[t] = -1)]_vars

\* the REQUEST for ObjA has returned -1 and the one frame that came was a NACK
C27_Witness ==
    \E t \in Callers :
        /\ pc[t] = "idle"
        /\ call[t] = CallOf(UAVTALK_TYPE_OBJ_REQ, ObjA, 0)
        /\ result[t] = -1
        /\ nCalls = 1
        /\ sent = Frame(UAVTALK_TYPE_NACK, NULL, IdA, 0)
        /\ OnlyNacks

\* No frame of kind DATA, DATA-WITH-ACK or ACK among the frames in bytes has
\* the wildcard in its instance field.  A frame is as long as its length
\* field says, and the checksum; the frames of the multi-instance object have
\* the instance id after the object id.
RECURSIVE WildcardFree(_)
WildcardFree(bytes) ==
    IF Len(bytes) < UAVTALK_MIN_HEADER_LENGTH + UAVTALK_CHECKSUM_LENGTH THEN TRUE
    ELSE LET total == bytes[3] + 256 * bytes[4] + UAVTALK_CHECKSUM_LENGTH
             objId == SubSeq(bytes, 5, 8)
         IN  /\ (/\ bytes[2] \in {UAVTALK_TYPE_OBJ, UAVTALK_TYPE_OBJ_ACK, UAVTALK_TYPE_ACK}
                 /\ UAVObjGetByID(objId) # NULL
                 /\ ~UAVObjIsSingleInstance(UAVObjGetByID(objId)))
                    => <<bytes[9], bytes[10]>> # <<255, 255>>
             /\ WildcardFree(SubSeq(bytes, total + 1, Len(bytes)))

(* C28: the wildcard instance id is never used with DATA, DATA-WITH-ACK or *)
(* ACK: no step writes a frame of these kinds with the wildcard in its     *)
(* instance field, whatever instance id the caller or the request gave,    *)
(* and a received frame of these kinds with the wildcard is rejected by    *)
(* receiveObject: it returns -1, unpacks nothing, sends no ACK and         *)
(* completes no transaction.                                               *)
C28_NoWildcardData ==
    [][/\ WildcardFree(Written)
       /\ \A a \in DispatchArgs :
             (RxStep(a) /\ a.instId = UAVOBJ_ALL_INSTANCES
                /\ a.type \in {UAVTALK_TYPE_OBJ, UAVTALK_TYPE_OBJ_ACK, UAVTALK_TYPE_ACK})
                 => /\ rxLog'[Len(rxLog')].ret = -1
                    /\ objData' = objData
                    /\ sink' = sink
                    /\ respSema' = respSema
                    /\ respObj' = respObj]_vars

\* the wildcard send with ack of ObjB has written its two frames and waits,
\* and a DATA-WITH-ACK frame of ObjB with the wildcard has been rejected
C28_Witness ==
    /\ pc["t1"] = "wait"
    /\ call["t1"] = CallOf(UAVTALK_TYPE_OBJ_ACK, ObjB, UAVOBJ_ALL_INSTANCES)
    /\ Flatten(sink) = AckedFrames(objData, ObjB, 0, 2)
    /\ sent = Parsed(UAVTALK_TYPE_OBJ_ACK, IdB, UAVOBJ_ALL_INSTANCES)
    /\ rxLog[Len(rxLog)].ret = -1
    /\ respObj = ObjB
    /\ objData = InitData

\* The frames of the multi-instance object ObjB as the transmitter writes
\* them: instance id 1 after the object id, length field 10 + payload length.
MultiInstanceFrames ==
    {Frame(t, ObjB, IdB, 1) : t \in {UAVTALK_TYPE_OBJ, UAVTALK_TYPE_OBJ_REQ,
                                     UAVTALK_TYPE_ACK}}

(* C29: a frame of a registered multi-instance object as the transmitter   *)
(* writes it passes the receiver's length checks and is dispatched, once   *)
(* and without a receive error, with the instance id decoded little-endian *)
(* from its two bytes; and the receiver is in ReadInstanceId only with a   *)
(* resolved multi-instance object.                                         *)
C29_MultiInstanceDispatched ==
    /\ (FedIntact /\ sent \in MultiInstanceFrames)
          => /\ Len(NewLog) = 1
             /\ NewLog[1].type = sent.type
             /\ NewLog[1].objId = IdB
             /\ NewLog[1].instId = sent.instId
             /\ stats.rxErrors = mark.errors
    /\ iproc.state = "INSTID"
          => (iproc.obj # NULL /\ ~UAVObjIsSingleInstance(iproc.obj))

\* ReadInstanceId is entered only for resolved multi-instance objects.
C29_InstIdOnlyMulti ==
    iproc.state = "INSTID" => (iproc.obj # NULL /\ ~UAVObjIsSingleInstance(iproc.obj))

(* C30: under fair scheduling and finite timeouts every call of a         *)
(* blocking transaction, and every send, returns, and the bytes handed to  *)
(* the receiver are all processed.                                         *)
C30_DeadlockFree ==
    /\ \A t \in Callers : (pc[t] # "idle") ~> (pc[t] = "idle")
    /\ (wire # <<>>) ~> (wire = <<>>)

\* the contexts hold each other up: a task's transaction has timed out and
\* it holds transLock and needs the state lock to cancel, UAVTalkGetStats
\* holds the state lock, and the receiver's next byte needs it for the dispatch
C30_Witness ==
    /\ pc["t1"] = "cancel"
    /\ transLock = "t1"
    /\ lock = "get"
    /\ wire # <<>>
    /\ WillDispatch(iproc, Head(wire))

----------------------------------------------------------------------------
(* The transmitter's failures, under SpecSend.                             *)

\* The instance sendObject hands to sendSingleObject for call cl, when it
\* makes one call of it.
SingleInstId(cl) ==
    IF cl.instId = UAVOBJ_ALL_INSTANCES /\ UAVObjIsSingleInstance(cl.obj)
    THEN 0 ELSE cl.instId

\* sendSingleObject fails its length check on call cl.
PayloadTooLong(cl) ==
    /\ cl.type \in {UAVTALK_TYPE_OBJ, UAVTALK_TYPE_OBJ_ACK}
    /\ UAVObjGetNumBytes(cl.obj) >= UAVTALK_MAX_PAYLOAD_LENGTH

\* The registry cannot pack the instance of call cl.
PackFails(cl) ==
    /\ cl.type \in {UAVTALK_TYPE_OBJ, UAVTALK_TYPE_OBJ_ACK}
    /\ SingleInstId(cl) # UAVOBJ_ALL_INSTANCES
    /\ SingleInstId(cl) \notin DOMAIN objData[cl.obj]

\* The step is task t's call of sendObject.
SendObjectStep(t) ==
    \/ pc[t] = "send" /\ pc'[t] = "wait"
    \/ pc[t] = "sendNoAck" /\ pc'[t] = "idle"

(* C33: when sendSingleObject fails, on the payload length check or on the *)
(* registry's pack, it has written no byte to the output sink and has left *)
(* txObjects, txBytes and txObjectBytes as they were.                      *)
C33_FailedSendWritesNothing ==
    [][\A t \in Callers :
          (SendObjectStep(t) /\ (PayloadTooLong(call[t]) \/ PackFails(call[t])))
              => /\ sink' = sink
                 /\ stats'.txObjects = stats.txObjects
                 /\ stats'.txBytes = stats.txBytes
                 /\ stats'.txObjectBytes = stats.txObjectBytes]_vars

\* one send has failed on the length check, another on the pack
C33_Witness ==
    \E t, u \in Callers :
        /\ pc[t] = "idle" /\ call[t] = CallOf(UAVTALK_TYPE_OBJ, ObjC, 0)
        /\ pc[u] = "idle" /\ call[u] = CallOf(UAVTALK_TYPE_OBJ, ObjB, 2)
        /\ nCalls = 2

----------------------------------------------------------------------------
(* The completion of transactions, under SpecTrans.                        *)

\* Task t waits for the answer to a send with ack, and its target is pending.
AckedSendPending(t) ==
    /\ call[t].type = UAVTALK_TYPE_OBJ_ACK
    /\ pc[t] = "wait"
    /\ respObj = call[t].obj
    /\ respSema = 0

\* The step dispatches an ACK frame for the target of call cl.
AckDispatched(cl) ==
    /\ Len(rxLog') = Len(rxLog) + 1
    /\ rxLog'[Len(rxLog')].type = UAVTALK_TYPE_ACK
    /\ rxLog'[Len(rxLog')].objId = UAVObjGetID(cl.obj)

(* C35: a pending send with ack is completed only by the dispatch of an    *)
(* ACK frame for its target; a DATA frame for the same object received     *)
(* while it is pending leaves the transaction pending.                     *)
C35_OnlyAckCompletesSend ==
    [][\A t \in Callers :
          (AckedSendPending(t) /\ (respSema' = 1 \/ respObj' = NULL))
              => AckDispatched(call[t])]_vars

(* C37: whenever no caller holds the transaction lock, immediately after   *)
(* UAVTalkInitialize and after every return of a blocking transaction, the *)
(* pending-transaction slot is empty and the completion signal is clear.   *)
C37_IdleSlotEmpty ==
    (transLock = "free") => (respObj = NULL /\ respSema = 0)

\* the same on a connection whose memory held zero in respObj when allocated
C37_IdleSlotEmptyIfZeroed ==
    (respObj = NULL) => [](transLock = "free" => (respObj = NULL /\ respSema = 0))

(* C36: no wake-up is lost.  A satisfying frame dispatched after the       *)
(* transaction's frame was sent and the state lock given, and before the   *)
(* caller has taken the completion signal, leaves the signal raised until  *)
(* the caller takes it: the caller's wait succeeds and the transaction     *)
(* returns 0.                                                              *)
C36_NoLostWakeup ==
    [][\A t \in Callers :
          /\ (pc'[t] = "wait" /\ served'[t]) => respSema' = 1
          /\ (pc[t] = "wait" /\ served[t] /\ pc'[t] # "wait") => pc'[t] = "ok"
          /\ (pc[t] = "ok" /\ served[t] /\ pc'[t] # "ok")
                 => (pc'[t] = "idle" /\ result'[t] = 0)]_vars

\* the caller of a send with ack has taken the signal an ACK frame raised
\* while it was between giving the state lock and the take
C36_Witness ==
    \E t \in Callers :
        /\ pc[t] = "ok"
        /\ served[t]
        /\ call[t].type = UAVTALK_TYPE_OBJ_ACK
        /\ sent.type = UAVTALK_TYPE_ACK
        /\ respSema = 0

----------------------------------------------------------------------------
(* The receive buffer, under Spec.                                         *)

(* C39: every write into the receive buffer is at an index smaller than    *)
(* the expected payload length of the frame being received, which is       *)
(* smaller than the maximum payload length; the receiver is in DATA only   *)
(* with an expected payload length greater than zero.                      *)
C39_BufferWritesInBounds ==
    /\ [][\A i \in DOMAIN rxBuffer :
             rxBuffer'[i] # rxBuffer[i]
                 => /\ iproc.state = "DATA"
                    /\ i = iproc.rxCount
                    /\ i < iproc.length
                    /\ iproc.length < UAVTALK_MAX_PAYLOAD_LENGTH]_vars
    /\ [](iproc.state = "DATA"
            => (iproc.length > 0 /\ iproc.rxCount < iproc.length))

\* the last payload byte of a DATA frame of ObjA has been written
C39_Witness ==
    /\ iproc.state = "CS"
    /\ iproc.length = Len(PeerPayload)
    /\ rxBuffer = PutBytes(ZeroBuffer, 0, PeerPayload)
    /\ last.ev = "Feed"

----------------------------------------------------------------------------
(* The write loop of sendSingleObject on its own: connections created with *)
(* every maximum packet size from one byte to more than the longest frame, *)
(* and calls of sendSingleObject for frames of every length.               *)

\* maxPacketSize values given to UAVTalkInitialize
ChunkSizes == 1..(UAVTALK_MAX_PACKET_LENGTH + 1)

\* The arguments of sendSingleObject: frames of 9, 11, 13 and 15 bytes.
ChunkCalls ==
    {CallOf(t, ObjA, 0) : t \in {UAVTALK_TYPE_OBJ, UAVTALK_TYPE_OBJ_REQ,
                                 UAVTALK_TYPE_OBJ_ACK, UAVTALK_TYPE_ACK}}
    \cup {CallOf(t, ObjB, i) : t \in {UAVTALK_TYPE_OBJ, UAVTALK_TYPE_OBJ_REQ},
                               i \in {0, 1}}

\* sendSingleObject(connection, obj, instId, type), called with the state lock held
SendSingle(cl) ==
    /\ nCalls < MaxCalls
    /\ nCalls' = nCalls + 1
    /\ Store(sendSingleObject(Conn(TRUE), cl.obj, cl.instId, cl.type))
    /\ call' = [call EXCEPT !["t1"] = cl]
    /\ UNCHANGED <<lock, transLock, pc, result, served>>
    /\ UNCHANGED <<linkVars, last, replyTo, sectionVars>>

NextChunk == \E cl \in ChunkCalls : SendSingle(cl)

InitChunk == Created(ChunkSizes) /\ Outside

SpecChunk == InitChunk /\ [][NextChunk]_vars

\* The serialized frame of call cl: marker, kind, length field, object id,
\* instance id of a multi-instance object, payload, checksum.
FrameOf(cl) ==
    LET instance == IF UAVObjIsSingleInstance(cl.obj) THEN <<>>
                    ELSE <<cl.instId % 256, cl.instId \div 256>>
        payload == IF cl.type \in {UAVTALK_TYPE_OBJ, UAVTALK_TYPE_OBJ_ACK}
                   THEN objData[cl.obj][cl.instId] ELSE <<>>
    IN  WireBytes(cl.type, UAVTALK_MIN_HEADER_LENGTH + Len(instance) + Len(payload),
                  UAVObjGetID(cl.obj) \o instance, payload)

\* The writes the step handed to the output stream.
NewWrites == SubSeq(sink', Len(sink) + 1, Len(sink'))

\* a / b rounded up
CeilDiv(a, b) == (a + b - 1) \div b

(* C40: for every frame length and every maximum chunk size txSize >= 1    *)
(* the write loop of sendSingleObject ends after ceil(frame length /       *)
(* txSize) writes, and the chunks in write order, put together, are the    *)
(* serialized frame: header, payload, checksum, no byte missing, repeated  *)
(* or out of place.                                                        *)
C40_ChunksMakeFrame ==
    [][\A cl \in ChunkCalls :
          (nCalls' = nCalls + 1 /\ call'["t1"] = cl)
              => /\ Len(NewWrites) = CeilDiv(Len(FrameOf(cl)), txSize)
                 /\ Flatten(NewWrites) = FrameOf(cl)
                 /\ \A i \in DOMAIN NewWrites : Len(NewWrites[i]) >= 1]_vars

\* a 13-byte frame has gone out in three writes of four bytes and one of one
C40_Witness ==
    /\ txSize = 4
    /\ nCalls = 1
    /\ call["t1"] = CallOf(UAVTALK_TYPE_OBJ, ObjA, 0)
    /\ Len(sink) = 4
    /\ Len(sink[4]) = 1

----------------------------------------------------------------------------
(* Resynchronization: bytes that are not the start marker reach the        *)
(* receiver in SYNC, a few before a frame of the peer or a long run of     *)
(* them, and then the frame is fed.                                        *)

\* Bytes before a frame, none of them the start marker: single bytes, bytes
\* that would pass for a kind and a size, a header without its marker.
Prefixes ==
    {<<>>, <<0>>, <<UAVTALK_TYPE_OBJ, 12>>, <<255, 59, 61>>,
     <<UAVTALK_TYPE_OBJ, 12, 0>> \o IdA}

\* The transmitter's frames for registered single-instance objects.
ResyncFrames ==
    {Frame(t, ObjA, IdA, 0) : t \in {UAVTALK_TYPE_OBJ, UAVTALK_TYPE_OBJ_ACK,
                                      UAVTALK_TYPE_OBJ_REQ, UAVTALK_TYPE_ACK}}
    \cup {Frame(UAVTALK_TYPE_OBJ_REQ, ObjC, IdC, 0)}

\* Lengths of long runs of bytes without a start marker: they take
\* rxPacketLength to just below 0xffff, to 0xffff and beyond it.
RunLengths == {65535 - 2, 65535, 65535 + 1}

\* n calls of UAVTalkProcessInputStream in SYNC, none with the start marker:
\* each counts the byte in rxBytes and in rxPacketLength and leaves the switch.
RunOf(c, n) ==
    [c EXCEPT !.stats.rxBytes = @ + n,
              !.iproc.rxPacketLength = IF @ + n < 65535 THEN @ + n ELSE 65535,
              !.ret = 0]

\* The peer puts bytes p and then frame f on the wire.
NoisySend(p, f) ==
    /\ wire = <<>>
    /\ nFrames < MaxRxFrames
    /\ wire' = p \o Encoded[f]
    /\ sent' = f
    /\ damage' = "none"
    /\ fromSync' = (iproc.state = "SYNC")
    /\ nFrames' = nFrames + 1
    /\ mark' = [log |-> Len(rxLog), sink |-> Len(sink),
                errors |-> stats.rxErrors, objects |-> stats.rxObjects]
    /\ last' = [ev |-> "PeerSend", byte |-> 0, task |-> "none"]
    /\ UNCHANGED <<sinceSync, replyTo, sectionVars>>
    /\ UNCHANGED connVars
    /\ UNCHANGED taskVars

\* A run of n bytes without a start marker is fed to the receiver in SYNC,
\* while rxPacketLength is not yet near 0xffff.
LongRun(n) ==
    /\ wire = <<>>
    /\ iproc.state = "SYNC"
    /\ iproc.rxPacketLength + MaxInput < 65535
    /\ Store(RunOf(Conn(TRUE), n))
    /\ last' = [ev |-> "LongRun", byte |-> 0, task |-> "rx"]
    /\ UNCHANGED <<linkVars, replyTo, sectionVars>>
    /\ UNCHANGED taskVars

NextResync ==
    \/ \E p \in Prefixes, f \in ResyncFrames : NoisySend(p, f)
    \/ \E n \in RunLengths : LongRun(n)
    \/ Feed

SpecResync == Init /\ [][NextResync]_vars

\* The step feeds the start marker to the receiver in SYNC.
MarkerAccepted ==
    /\ iproc.state = "SYNC"
    /\ wire # <<>>
    /\ wire' = Tail(wire)
    /\ Head(wire) = UAVTALK_SYNC_VAL

(* C34: the receiver's running byte count rxPacketLength never exceeds     *)
(* 65535, whatever the input, long runs of bytes without a start marker    *)
(* included, and every byte accepted as a start marker in SYNC sets it     *)
(* to 1.                                                                   *)
C34_ByteCountCapped ==
    /\ [](iproc.rxPacketLength <= 65535)
    /\ [][MarkerAccepted => (iproc'.rxPacketLength = 1 /\ iproc'.state = "TYPE")]_vars

\* a start marker has been accepted after rxPacketLength had reached 65535
C34_Witness ==
    /\ stats.rxBytes > 65535
    /\ iproc.state = "TYPE"
    /\ iproc.rxPacketLength = 1

\* A few bytes without the start marker, fed one call each to a receiver in
\* SYNC, leave what the run's n calls leave.
C34_RunOfIsFeedAll ==
    (iproc.state = "SYNC")
        => \A n \in 1..3 : RunOf(Conn(TRUE), n) = FeedAll(Conn(TRUE), Zeros(n))

(* C38: starting in SYNC, after any prefix of bytes that does not contain  *)
(* the start marker, a valid frame for a registered single-instance object *)
(* is dispatched exactly once, with its kind, object id and payload, and   *)
(* rxErrors is unchanged.                                                  *)
C38_ResyncAfterNoise ==
    (FrameFed /\ fromSync)
        => /\ Len(NewLog) = 1
           /\ DispatchedAs(NewLog[1], sent)
           /\ stats.rxErrors = mark.errors

\* the DATA frame of ObjA has been fed after seven bytes that look like a
\* header without its marker
C38_Witness ==
    /\ FrameFed
    /\ sent = Frame(UAVTALK_TYPE_OBJ, ObjA, IdA, 0)
    /\ stats.rxBytes = 7 + Len(Encoded[sent])
    /\ Len(NewLog) = 1

----------------------------------------------------------------------------
(* The sections under the state lock, statement by statement: a context    *)
(* takes the lock, serializes its frame into txBuffer, hands it to the     *)
(* output stream chunk by chunk, updates the counters and gives the lock.  *)
(* Caller tasks in objectTransaction, the receive task at its dispatch and *)
(* a task in UAVTalkSetOutputStream run together; run[x].at tells where    *)
(* context x is: "out" of every section, in "want" of the lock, "locked",  *)
(* in the write loop ("flush") or "done" and about to give the lock.       *)

OtherSink == TheSink + 1

\* outputStream values given to UAVTalkSetOutputStream
Streams == {NULL, OtherSink}

\* The calls of the caller tasks: each sends one frame of ObjA.
LockCalls == {CallOf(UAVTALK_TYPE_OBJ_REQ, ObjA, 0), CallOf(UAVTALK_TYPE_OBJ, ObjA, 0)}

\* The frames the receive task dispatches: answered with a DATA frame, with
\* an ACK, with nothing, with a NACK.
LockArgs ==
    {Parsed(UAVTALK_TYPE_OBJ_REQ, IdA, 0), Parsed(UAVTALK_TYPE_OBJ_ACK, IdA, 0),
     Parsed(UAVTALK_TYPE_ACK, IdA, 0), Parsed(UAVTALK_TYPE_OBJ_REQ, IdUnknown, 0)}

\* Context x is at a xSemaphoreTakeRecursive(connection->lock, portMAX_DELAY).
WantsLock(x) ==
    IF x \in Callers
    THEN pc[x] \in {"send", "cancel", "sendNoAck"} /\ run[x].at = "out"
    ELSE run[x].at = "want"

\* xSemaphoreTakeRecursive(connection->lock, portMAX_DELAY) returns for context x
LockTake(x) ==
    /\ WantsLock(x)
    /\ MutexFree(lock, x)
    /\ lock' = x
    /\ run' = [run EXCEPT ![x].at = "locked"]
    /\ UNCHANGED <<outLog, transLock, pc, call, result, served, nCalls>>
    /\ UNCHANGED connVars
    /\ UNCHANGED <<linkVars, last, replyTo>>

\* The locals of sendSingleObject or sendNack when the frame is in txBuffer
\* and the write loop begins: c is the connection before the call, c1 after.
\* sendNack hands its frame over in one write.
Sending(c, c1) ==
    LET total == c1.stats.txBytes - c.stats.txBytes
        counted == c1.stats.txObjects > c.stats.txObjects
    IN  IF total = 0 THEN [NoRun EXCEPT !.at = "done"]
        ELSE [at |-> "flush", total |-> total, sent |-> 0,
              chunk |-> IF counted THEN c.txSize ELSE total,
              objBytes |-> c1.stats.txObjectBytes - c.stats.txObjectBytes,
              counted |-> counted,
              frame |-> Slice(c1.txBuffer, 0, total), job |-> NULL]

\* The connection as the call leaves it before the write loop: the sink and
\* the counters are not yet touched.
BeforeLoop(c1) == [c1 EXCEPT !.outStream = outStream, !.stats = stats, !.sink = sink]

\* objectTransaction under the lock: record the pending target (blocking
\* calls), sendObject up to the write loop of sendSingleObject
CallerSerialize(t) ==
    /\ pc[t] \in {"send", "sendNoAck"}
    /\ run[t].at = "locked"
    /\ LET c == [Conn(TRUE) EXCEPT
                    !.outStream = NULL,
                    !.respObj = IF pc[t] = "send" THEN call[t].obj ELSE @,
                    !.respInstId = IF pc[t] = "send" THEN call[t].instId ELSE @]
           c1 == sendObject(c, call[t].obj, call[t].instId, call[t].type)
       IN  /\ Store(BeforeLoop(c1))
           /\ run' = [run EXCEPT ![t] = Sending(c, c1)]
    /\ UNCHANGED <<outLog, lock, transLock, pc, call, result, served, nCalls>>
    /\ UNCHANGED <<linkVars, last, replyTo>>

\* One pass of the write loop: (*connection->outStream)(txBuffer + sent, sending)
Chunk(x) ==
    /\ run[x].at = "flush"
    /\ run[x].sent < run[x].total
    /\ LET sending == Min(run[x].total - run[x].sent, run[x].chunk)
           bytes == Slice(txBuffer, run[x].sent, sending)
       IN  /\ IF outStream # NULL
              THEN /\ sink' = Append(sink, bytes)
                   /\ outLog' = Append(outLog, [by |-> x, to |-> outStream,
                                                at |-> run[x].sent, bytes |-> bytes,
                                                of |-> run[x].frame])
              ELSE UNCHANGED <<sink, outLog>>
           /\ run' = [run EXCEPT ![x].sent = @ + sending]
    /\ UNCHANGED <<iproc, stats, rxBuffer, txBuffer, respObj, respInstId, respSema,
                   txSize, outStream, objData, rxLog>>
    /\ UNCHANGED taskVars
    /\ UNCHANGED <<linkVars, last, replyTo>>

\* The write loop is over: the transmit counters
EndSend(x) ==
    /\ run[x].at = "flush"
    /\ run[x].sent >= run[x].total
    /\ stats' = [stats EXCEPT !.txObjects = IF run[x].counted THEN @ + 1 ELSE @,
                              !.txBytes = @ + run[x].total,
                              !.txObjectBytes = @ + run[x].objBytes]
    /\ run' = [run EXCEPT ![x].at = "done"]
    /\ UNCHANGED <<iproc, rxBuffer, txBuffer, respObj, respInstId, respSema,
                   txSize, outStream, sink, objData, rxLog, outLog>>
    /\ UNCHANGED taskVars
    /\ UNCHANGED <<linkVars, last, replyTo>>

\* objectTransaction under the lock, after the timeout: cancel the transaction
CallerCancel(t) ==
    /\ pc[t] = "cancel"
    /\ run[t].at = "locked"
    /\ respSema' = 0
    /\ respObj' = NULL
    /\ run' = [run EXCEPT ![t].at = "done"]
    /\ UNCHANGED <<iproc, stats, rxBuffer, txBuffer, respInstId, txSize,
                   outStream, sink, objData, rxLog, outLog>>
    /\ UNCHANGED taskVars
    /\ UNCHANGED <<linkVars, last, replyTo>>

\* A caller that goes on from its section and keeps the lock.
CallerKeep(t) ==
    /\ t \in Callers
    /\ run[t].at = "done"
    /\ run' = [run EXCEPT ![t] = NoRun]
    /\ pc' = [pc EXCEPT ![t] = CASE pc[t] = "send" -> "wait"
                                 [] pc[t] = "cancel" -> "fail"
                                 [] OTHER -> "idle"]
    /\ result' = [result EXCEPT ![t] = IF pc[t] = "sendNoAck" THEN 0 ELSE @]
    /\ UNCHANGED <<outLog, lock, transLock, call, served, nCalls>>
    /\ UNCHANGED connVars
    /\ UNCHANGED <<linkVars, last, replyTo>>

\* xSemaphoreGiveRecursive(connection->lock) in objectTransaction; the caller
\* goes on to the wait on respSema, to the give of transLock or to its return
CallerGive(t) ==
    /\ t \in Callers
    /\ run[t].at = "done"
    /\ lock' = "free"
    /\ run' = [run EXCEPT ![t] = NoRun]
    /\ pc' = [pc EXCEPT ![t] = CASE pc[t] = "send" -> "wait"
                                 [] pc[t] = "cancel" -> "fail"
                                 [] OTHER -> "idle"]
    /\ result' = [result EXCEPT ![t] = IF pc[t] = "sendNoAck" THEN 0 ELSE @]
    /\ UNCHANGED <<outLog, transLock, call, served, nCalls>>
    /\ UNCHANGED connVars
    /\ UNCHANGED <<linkVars, last, replyTo>>

\* The receive task's call has a frame through the checksum and the final
\* length check, and goes for the lock.
RxArrive(a) ==
    /\ nFrames < MaxRxFrames
    /\ run["rx"].at = "out"
    /\ nFrames' = nFrames + 1
    /\ sent' = a
    /\ run' = [run EXCEPT !["rx"].at = "want"]
    /\ UNCHANGED <<wire, damage, fromSync, sinceSync, mark, last, replyTo, outLog>>
    /\ UNCHANGED connVars
    /\ UNCHANGED taskVars

\* receiveObject under the lock, up to the write loop of the frame it sends
RxHandle ==
    /\ run["rx"].at = "locked"
    /\ \E ok \in BOOLEAN :
          LET c == [Conn(ok) EXCEPT !.outStream = NULL,
                                    !.iproc.type = sent.type,
                                    !.iproc.objId = sent.objId,
                                    !.iproc.obj = sent.obj,
                                    !.iproc.instId = sent.instId,
                                    !.iproc.length = Len(sent.payload),
                                    !.rxBuffer = PutBytes(@, 0, sent.payload)]
              c1 == Dispatch(c)
          IN  /\ Store(BeforeLoop(c1))
              /\ run' = [run EXCEPT !["rx"] = Sending(c, c1)]
    /\ UNCHANGED outLog
    /\ UNCHANGED taskVars
    /\ UNCHANGED <<linkVars, last, replyTo>>

\* The receive counters, and xSemaphoreGiveRecursive(connection->lock)
RxGive ==
    /\ run["rx"].at = "done"
    /\ stats' = [stats EXCEPT !.rxObjectBytes = @ + Len(sent.payload),
                              !.rxObjects = @ + 1]
    /\ lock' = "free"
    /\ run' = [run EXCEPT !["rx"] = NoRun]
    /\ UNCHANGED <<iproc, rxBuffer, txBuffer, respObj, respInstId, respSema,
                   txSize, outStream, sink, objData, rxLog, outLog>>
    /\ UNCHANGED <<transLock, pc, call, result, served, nCalls>>
    /\ UNCHANGED <<linkVars, last, replyTo>>

\* UAVTalkSetOutputStream(connection, s) is called
SetBegin(s) ==
    /\ nCalls < MaxCalls
    /\ run["set"].at = "out"
    /\ nCalls' = nCalls + 1
    /\ run' = [run EXCEPT !["set"] = [NoRun EXCEPT !.at = "want", !.job = s]]
    /\ UNCHANGED <<outLog, lock, transLock, pc, call, result, served>>
    /\ UNCHANGED connVars
    /\ UNCHANGED <<linkVars, last, replyTo>>

\* connection->outStream = outputStream
SetStore ==
    /\ run["set"].at = "locked"
    /\ outStream' = run["set"].job
    /\ run' = [run EXCEPT !["set"].at = "done"]
    /\ UNCHANGED <<iproc, stats, rxBuffer, txBuffer, respObj, respInstId, respSema,
                   txSize, sink, objData, rxLog, outLog>>
    /\ UNCHANGED taskVars
    /\ UNCHANGED <<linkVars, last, replyTo>>

\* xSemaphoreGiveRecursive(connection->lock); return 0
SetGive ==
    /\ run["set"].at = "done"
    /\ lock' = "free"
    /\ run' = [run EXCEPT !["set"] = NoRun]
    /\ UNCHANGED <<outLog, transLock, pc, call, result, served, nCalls>>
    /\ UNCHANGED connVars
    /\ UNCHANGED <<linkVars, last, replyTo>>

NextLock ==
    \/ \E t \in Callers, cl \in LockCalls : Begin(t, cl)
    \/ \E t \in Callers : TakeTransLock(t)
    \/ \E x \in Contexts : LockTake(x)
    \/ \E t \in Callers : CallerSerialize(t)
    \/ \E x \in Contexts : Chunk(x)
    \/ \E x \in Contexts : EndSend(x)
    \/ \E t \in Callers : CallerGive(t)
    \/ \E t \in Callers : WaitTake(t)
    \/ \E t \in Callers : WaitTimeout(t)
    \/ \E t \in Callers : CallerCancel(t)
    \/ \E t \in Callers : Return(t)
    \/ \E a \in LockArgs : RxArrive(a)
    \/ RxHandle
    \/ RxGive
    \/ \E s \in Streams : SetBegin(s)
    \/ SetStore
    \/ SetGive

\* The write loop makes several passes for a frame, and no target is pending
\* before the first transaction.
InitLock == Init /\ txSize = 4 /\ respObj = NULL

SpecLock == InitLock /\ [][NextLock]_vars

(* C31: no context waits on the completion signal or on the transaction    *)
(* lock while it holds the state lock: a caller at the wait on respSema,   *)
(* or at the take of transLock, is outside every section under the state   *)
(* lock, which it gave before the wait began and takes again only after    *)
(* the wait has ended; the receive task and UAVTalkSetOutputStream wait    *)
(* on neither.                                                             *)
C31_NoWaitUnderLock ==
    /\ \A t \in Callers :
          pc[t] \in {"takeTrans", "wait"} => (lock # t /\ run[t].at = "out")
    /\ \A x \in Contexts : lock = x => run[x].at \in {"locked", "flush", "done"}
    /\ lock \in Contexts \cup {"free"}

\* one caller waits for its answer and the other for the transaction lock
\* while the receive task is in its section under the state lock
C31_Witness ==
    \E t, u \in Callers :
        /\ pc[t] = "wait"
        /\ pc[u] = "takeTrans"
        /\ lock = "rx"
        /\ run["rx"].at = "flush"

\* Write i of the output stream log is the last of its frame.
EndsItsFrame(w) == w.at + Len(w.bytes) = Len(w.of)

(* C32: txBuffer is serialized and handed to the output stream only while  *)
(* the state lock is held by the context doing it, so the bytes of two     *)
(* frames, a caller's and the dispatcher's ACK, NACK or response, are      *)
(* never interleaved on the sink, every chunk is the part of the frame as  *)
(* it was serialized, and all chunks of one frame go to the same stream: a *)
(* replacement of the sink never takes effect between two of them.         *)
C32_FramesNotInterleaved ==
    /\ [][/\ outLog' # outLog => lock = outLog'[Len(outLog')].by
          /\ txBuffer' # txBuffer => \E x \in Contexts : lock = x /\ run[x].at = "locked"
          /\ outStream' # outStream => lock = "set"]_vars
    /\ [](\A i \in DOMAIN outLog :
             LET w == outLog[i]
             IN  /\ w.bytes = SubSeq(w.of, w.at + 1, w.at + Len(w.bytes))
                 /\ (i = 1 \/ EndsItsFrame(outLog[i - 1])) => w.at = 0
                 /\ (i > 1 /\ ~EndsItsFrame(outLog[i - 1]))
                        => /\ w.by = outLog[i - 1].by
                           /\ w.of = outLog[i - 1].of
                           /\ w.at = outLog[i - 1].at + Len(outLog[i - 1].bytes)
                           /\ w.to = outLog[i - 1].to)

\* a context is between two chunks of its frame while a caller with a frame
\* to send and UAVTalkSetOutputStream both wait for the state lock
C32_Witness ==
    \E x \in Contexts, t \in Callers :
        /\ x # t
        /\ run[x].at = "flush"
        /\ 0 < run[x].sent
        /\ run[x].sent < run[x].total
        /\ WantsLock(t)
        /\ WantsLock("set")
        /\ lock = x

====
